---- MODULE Spec2Model ----
(***************************************************************************)
(* Model of the VibeVoice-ASR sidecar (src/sidecar/vibevoice-asr):         *)
(*   - inference.py: time parsing and transcript segment normalization;    *)
(*   - model_loader.py: ModelLoader (precision ladder, family runtime      *)
(*     check, native / fallback loaders, _finalize_segments, transcribe);  *)
(*   - worker_once.py: the one-shot worker (request validation, exit       *)
(*     codes, stdout / stderr payloads).                                   *)
(*                                                                         *)
(* Python floats are modelled as exact rationals [n, d] in lowest terms    *)
(* (d > 0): rounding, NaN and the infinities are outside the model.        *)
(* Optional values are sequences of length 0 (None) or 1; a call that      *)
(* raises gives a sequence of length 2, the exception type and its text.   *)
(***************************************************************************)
EXTENDS Integers, Sequences, FiniteSets, TLC

(***************************************************************************)
(* Bounds of the model.                                                    *)
(***************************************************************************)
\* Longest list of raw entries handed to the normalizer.
MaxLen == 3

(***************************************************************************)
(* Exact rational arithmetic (the model of float).                         *)
(***************************************************************************)
Abs(x) == IF x < 0 THEN -x ELSE x

RECURSIVE GCD(_, _)
GCD(a, b) == IF b = 0 THEN a ELSE GCD(b, a % b)

\* The rational n/d (d # 0) in lowest terms with a positive denominator.
Rat(n, d) ==
    LET s  == IF d < 0 THEN -1 ELSE 1
        nn == s * n
        dd == s * d
        g  == GCD(Abs(nn), dd)
    IN  [n |-> nn \div g, d |-> dd \div g]

RInt(k) == [n |-> k, d |-> 1]
RAdd(a, b) == Rat(a.n * b.d + b.n * a.d, a.d * b.d)
RSub(a, b) == Rat(a.n * b.d - b.n * a.d, a.d * b.d)
RMul(a, b) == Rat(a.n * b.n, a.d * b.d)
RDiv(a, b) == Rat(a.n * b.d, a.d * b.n)
\* Fractions are kept in lowest terms, so equal ones are equal records.
RLt(a, b) == a # b /\ a.n * b.d < b.n * a.d
RLe(a, b) == a = b \/ a.n * b.d <= b.n * a.d
\* Python's max(a, b) / min(a, b): the first argument wins a tie.
RMax(a, b) == IF RLt(a, b) THEN b ELSE a
RMin(a, b) == IF RLt(b, a) THEN b ELSE a
RZero == RInt(0)

(***************************************************************************)
(* Optional values and Python truthiness.                                  *)
(***************************************************************************)
None == << >>
Some(x) == << x >>
IsNone(o) == Len(o) = 0
Val(o) == o[1]

\* A call that raised instead of returning.
Raise(type, text) == << type, text >>
Raised(o) == Len(o) = 2

\* bool(x) for x an Optional[float]: None and 0.0 are falsy.
TruthyTime(o) == ~IsNone(o) /\ Val(o) # RZero

\* a[1] or a[2] or ... : the first truthy operand, else the last operand; an
\* operand that raises ends the chain with its exception.
RECURSIVE OrChain(_, _)
OrChain(ops, i) ==
    IF Raised(ops[i]) THEN ops[i]
    ELSE IF i >= Len(ops) THEN ops[Len(ops)]
    ELSE IF TruthyTime(ops[i]) THEN ops[i]
    ELSE OrChain(ops, i + 1)

(***************************************************************************)
(* Raw values of a model-output entry.                                     *)
(*   NoneV         the key is absent (dict.get gives None)                 *)
(*   Num(r)        a JSON number                                           *)
(*   BigInt        a JSON integer beyond the range of float, as 10**400    *)
(*   Str(parts)    a time string, split on ":" into parts; a part records  *)
(*                 what float(part) gives (f: None for ValueError) and the *)
(*                 first match of _FLOAT_TIME_REGEX in it (r).  A blank    *)
(*                 string has no parts.                                    *)
(*   Txt(words)    a text string given by its words; Txt(<< >>) is "",     *)
(*                 WsTxt is a string of white space only                   *)
(*   Lbl(s)        a speaker string given by its stripped content          *)
(***************************************************************************)
NoneV == [kind |-> "none"]
Num(r) == [kind |-> "num", v |-> r]
BigInt == [kind |-> "bigint"]
Str(parts) == [kind |-> "str", parts |-> parts]
Txt(words) == [kind |-> "text", words |-> words, ws |-> FALSE]
WsTxt == [kind |-> "text", words |-> << >>, ws |-> TRUE]
Lbl(s) == [kind |-> "label", s |-> s, ws |-> FALSE]
WsLbl == [kind |-> "label", s |-> "", ws |-> TRUE]
\* Parts of a time string.
PNum(k) == [f |-> Some(RInt(k)), r |-> Some(RInt(k))]      \* "02"
PDirty(k) == [f |-> None, r |-> Some(RInt(k))]             \* "2s"
PJunk == [f |-> None, r |-> None]                          \* "abc"
PExp == [f |-> Some(RInt(1000)), r |-> Some(RInt(1))]      \* "1e3"

\* seg.get(key)
Get(seg, key) == IF key \in DOMAIN seg THEN seg[key] ELSE NoneV

\* _FLOAT_TIME_REGEX.search(text): the first number in the text.
RECURSIVE RegexSearch(_, _)
RegexSearch(parts, i) ==
    IF i > Len(parts) THEN None
    ELSE IF ~IsNone(parts[i].r) THEN parts[i].r
    ELSE RegexSearch(parts, i + 1)

\* Mutant of _safe_parse_time: a colon string with a part that is no float,
\* or with another count of parts, gives None.
_safe_parse_time_NoFallThrough(value) ==
    IF value.kind = "none" THEN None
    ELSE IF value.kind = "num" THEN Some(value.v)
    ELSE IF value.kind = "bigint"
      THEN Raise("OverflowError", "int too large to convert to float")
    ELSE IF value.kind # "str" THEN None
    ELSE IF Len(value.parts) = 0 THEN None
    ELSE
      LET p == value.parts
          allFloat == \A i \in 1..Len(p) : ~IsNone(p[i].f)
          F(i) == Val(p[i].f)
      IN  IF Len(p) = 3 /\ allFloat
            THEN Some(RAdd(RAdd(RMul(F(1), RInt(3600)), RMul(F(2), RInt(60))), F(3)))
          ELSE IF Len(p) = 2 /\ allFloat
            THEN Some(RAdd(RMul(F(1), RInt(60)), F(2)))
          ELSE IF Len(p) = 1 THEN RegexSearch(p, 1)
          ELSE None

\* _safe_parse_time; float(value) of an int beyond the float range raises
\* OverflowError, which the function does not catch.
_safe_parse_time(value) ==
    IF value.kind = "none" THEN None
    ELSE IF value.kind = "num" THEN Some(value.v)
    ELSE IF value.kind = "bigint"
      THEN Raise("OverflowError", "int too large to convert to float")
    ELSE IF value.kind # "str" THEN None
    ELSE IF Len(value.parts) = 0 THEN None
    ELSE
      LET p == value.parts
          allFloat == \A i \in 1..Len(p) : ~IsNone(p[i].f)
          F(i) == Val(p[i].f)
      IN  IF Len(p) = 3 /\ allFloat
            THEN Some(RAdd(RAdd(RMul(F(1), RInt(3600)), RMul(F(2), RInt(60))), F(3)))
          ELSE IF Len(p) = 2 /\ allFloat
            THEN Some(RAdd(RMul(F(1), RInt(60)), F(2)))
          ELSE RegexSearch(p, 1)

(***************************************************************************)
(* normalize_transcription_segments (inference.py).                        *)
(***************************************************************************)
TextKeys == << "text", "Content", "content", "transcript" >>
SpeakerKeys == << "speaker", "speaker_id", "Speaker ID", "Speaker" >>
StartKeys == << "start_time", "start", "Start time", "Start" >>
EndKeys == << "end_time", "end", "End time", "End" >>

TextTruthy(v) == v.kind = "text" /\ (Len(v.words) > 0 \/ v.ws)
LabelTruthy(v) == v.kind = "label" /\ (v.s # "" \/ v.ws)

\* str(seg.get(k1) or seg.get(k2) or ... or "").strip(), as its words.
RECURSIVE EntryText(_, _)
EntryText(seg, i) ==
    IF i > Len(TextKeys) THEN << >>
    ELSE IF TextTruthy(Get(seg, TextKeys[i])) THEN Get(seg, TextKeys[i]).words
    ELSE EntryText(seg, i + 1)

\* str(seg.get(k1) or ... or "Speaker_0").strip()
RECURSIVE EntrySpeaker(_, _)
EntrySpeaker(seg, i) ==
    IF i > Len(SpeakerKeys) THEN "Speaker_0"
    ELSE IF LabelTruthy(Get(seg, SpeakerKeys[i])) THEN Get(seg, SpeakerKeys[i]).s
    ELSE EntrySpeaker(seg, i + 1)

EntryTime(seg, keys) ==
    OrChain([i \in 1..Len(keys) |-> _safe_parse_time(Get(seg, keys[i]))], 1)

\* An entry of the list that is a dict; a str among the entries is NotADict.
NotADict == Lbl("abc")
IsDict(seg) == "kind" \notin DOMAIN seg

\* The exception one pass of the per-entry loop raises (None: it does not):
\* seg.get of an entry that is no dict, or what _safe_parse_time raises for
\* a start or an end of an entry whose text is not blank.
EntryRaises(seg) ==
    IF ~IsDict(seg) THEN Some(Raise("AttributeError", "object has no attribute 'get'"))
    ELSE IF Len(EntryText(seg, 1)) = 0 THEN None
    ELSE IF Raised(EntryTime(seg, StartKeys)) THEN Some(EntryTime(seg, StartKeys))
    ELSE IF Raised(EntryTime(seg, EndKeys)) THEN Some(EntryTime(seg, EndKeys))
    ELSE None

\* The exception normalize_transcription_segments raises (None: it returns).
RECURSIVE NormalizeRaises(_, _)
NormalizeRaises(segs, idx) ==
    IF idx > Len(segs) THEN None
    ELSE IF ~IsNone(EntryRaises(segs[idx])) THEN EntryRaises(segs[idx])
    ELSE NormalizeRaises(segs, idx + 1)

\* max(0.6, token_estimate * 0.35) with token_estimate = max(len(words), 1)
EndEstimate(words) ==
    LET token_estimate == IF Len(words) > 1 THEN Len(words) ELSE 1
    IN  RMax(Rat(6, 10), RMul(RInt(token_estimate), Rat(35, 100)))

\* Mutant of NormalizeEntries: a missing start is always index * 2.0.
RECURSIVE NormalizeEntries_IndexOnly(_, _, _)
NormalizeEntries_IndexOnly(segs, idx, normalized) ==
    IF idx > Len(segs) THEN normalized
    ELSE
      LET seg == segs[idx]
          text == EntryText(seg, 1)
          spk == EntrySpeaker(seg, 1)
          start0 == EntryTime(seg, StartKeys)
          end0 == EntryTime(seg, EndKeys)
          start == IF ~IsNone(start0) THEN Val(start0)
                   ELSE RMul(RInt(idx - 1), RInt(2))
          end1 == IF ~IsNone(end0) THEN Val(end0)
                  ELSE RAdd(start, EndEstimate(text))
          end == IF RLe(end1, start) THEN RAdd(start, Rat(1, 2)) ELSE end1
      IN  IF Len(text) = 0 THEN NormalizeEntries_IndexOnly(segs, idx + 1, normalized)
          ELSE NormalizeEntries_IndexOnly(segs, idx + 1,
                 Append(normalized,
                   [speaker |-> IF spk = "" THEN "Speaker_0" ELSE spk,
                    start_time |-> start, end_time |-> end, text |-> text]))

\* The per-entry loop (lines 262-314); idx is 1-based here, 0-based in the code.
RECURSIVE NormalizeEntries(_, _, _)
NormalizeEntries(segs, idx, normalized) ==
    IF idx > Len(segs) THEN normalized
    ELSE
      LET seg == segs[idx]
          text == EntryText(seg, 1)
          spk == EntrySpeaker(seg, 1)
          start0 == EntryTime(seg, StartKeys)
          end0 == EntryTime(seg, EndKeys)
          start == IF ~IsNone(start0) THEN Val(start0)
                   ELSE IF Len(normalized) > 0
                     THEN normalized[Len(normalized)].end_time
                   ELSE RMul(RInt(idx - 1), RInt(2))
          end1 == IF ~IsNone(end0) THEN Val(end0)
                  ELSE RAdd(start, EndEstimate(text))
          end == IF RLe(end1, start) THEN RAdd(start, Rat(1, 2)) ELSE end1
      IN  IF Len(text) = 0 THEN NormalizeEntries(segs, idx + 1, normalized)
          ELSE NormalizeEntries(segs, idx + 1,
                 Append(normalized,
                   [speaker |-> IF spk = "" THEN "Speaker_0" ELSE spk,
                    start_time |-> start, end_time |-> end, text |-> text]))

\* list.sort(key=start_time): stable.
RECURSIVE InsertByStart(_, _, _)
InsertByStart(sorted, x, i) ==
    IF i > Len(sorted) THEN Append(sorted, x)
    ELSE IF RLt(x.start_time, sorted[i].start_time)
      THEN SubSeq(sorted, 1, i - 1) \o << x >> \o SubSeq(sorted, i, Len(sorted))
    ELSE InsertByStart(sorted, x, i + 1)

RECURSIVE SortByStart(_, _, _)
SortByStart(list, i, acc) ==
    IF i > Len(list) THEN acc
    ELSE SortByStart(list, i + 1, InsertByStart(acc, list[i], 1))

\* Mutant of PostPassStep: the start is never pushed up to the predecessor's end.
PostPassStep_NoPush(seg, prev) ==
    LET end == IF RLe(seg.end_time, seg.start_time)
               THEN RAdd(seg.start_time, Rat(1, 2)) ELSE seg.end_time
    IN  [seg EXCEPT !.end_time = end]

\* Mutant of PostPassStep: the collapse is tested against the start the
\* segment had before it was pushed.
PostPassStep_StaleCollapse(seg, prev) ==
    LET start == IF ~IsNone(prev) /\ RLt(seg.start_time, Val(prev).end_time)
                 THEN Val(prev).end_time ELSE seg.start_time
        end == IF RLe(seg.end_time, seg.start_time) THEN RAdd(start, Rat(1, 2))
               ELSE seg.end_time
    IN  [seg EXCEPT !.start_time = start, !.end_time = end]

\* The post-pass body (lines 318-321) on seg, prev being the already
\* rewritten predecessor (None for the first segment).
PostPassStep(seg, prev) ==
    LET start == IF ~IsNone(prev) /\ RLt(seg.start_time, Val(prev).end_time)
                 THEN Val(prev).end_time ELSE seg.start_time
        end == IF RLe(seg.end_time, start) THEN RAdd(start, Rat(1, 2))
               ELSE seg.end_time
    IN  [seg EXCEPT !.start_time = start, !.end_time = end]

\* The post-pass loop (line 317).
RECURSIVE PostPass(_, _, _)
PostPass(list, idx, acc) ==
    IF idx > Len(list) THEN acc
    ELSE PostPass(list, idx + 1,
           Append(acc, PostPassStep(list[idx],
                                    IF idx > 1 THEN Some(acc[idx - 1]) ELSE None)))

RECURSIVE MaxEnd(_, _)
MaxEnd(list, i) ==
    IF i = Len(list) THEN list[i].end_time
    ELSE RMax(list[i].end_time, MaxEnd(list, i + 1))

\* Mutant of Rescale: the list is stretched as well when it ends before the
\* fallback duration.
Rescale_Expands(list, fallback_duration) ==
    IF TruthyTime(fallback_duration) /\ RLt(RZero, Val(fallback_duration))
       /\ Len(list) > 0
    THEN
      LET max_end == MaxEnd(list, 1)
          ratio == RDiv(Val(fallback_duration), max_end)
      IN  IF RLt(RZero, max_end)
          THEN [i \in 1..Len(list) |->
                  [list[i] EXCEPT !.start_time = RMul(@, ratio),
                                  !.end_time = RMul(@, ratio)]]
          ELSE list
    ELSE list

\* The rescale (lines 323-329); fallback_duration is Optional.
Rescale(list, fallback_duration) ==
    IF TruthyTime(fallback_duration) /\ RLt(RZero, Val(fallback_duration))
       /\ Len(list) > 0
    THEN
      LET max_end == MaxEnd(list, 1)
          ratio == RDiv(Val(fallback_duration), max_end)
      IN  IF RLt(Val(fallback_duration), max_end) /\ RLt(RZero, max_end)
          THEN [i \in 1..Len(list) |->
                  [list[i] EXCEPT !.start_time = RMul(@, ratio),
                                  !.end_time = RMul(@, ratio)]]
          ELSE list
    ELSE list

normalize_transcription_segments(transcription_segments, fallback_duration) ==
    Rescale(
      PostPass(
        SortByStart(NormalizeEntries(transcription_segments, 1, << >>), 1, << >>),
        1, << >>),
      fallback_duration)

(***************************************************************************)
(* ModelLoader._finalize_segments (model_loader.py).                       *)
(***************************************************************************)
\* A normalized segment handed on as a dict (keys speaker, start_time,
\* end_time, text with float times).
AsEntry(seg) ==
    [speaker |-> Lbl(seg.speaker), start_time |-> Num(seg.start_time),
     end_time |-> Num(seg.end_time), text |-> Txt(seg.text)]

AsEntries(list) == [i \in 1..Len(list) |-> AsEntry(list[i])]

\* Mutant of FinalizeStep: the bounds are not clamped down to the duration.
FinalizeStep_NoUpperClamp(seg, prev, duration) ==
    LET s1 == RMax(RZero, seg.start_time)
        e1 == RMax(RAdd(s1, Rat(5, 100)), seg.end_time)
        pushed == ~IsNone(prev) /\ RLt(s1, Val(prev).end_time)
        s3 == IF pushed THEN Val(prev).end_time ELSE s1
        e3 == IF pushed /\ RLe(e1, s3) THEN RAdd(s3, Rat(1, 10)) ELSE e1
    IN  [seg EXCEPT !.start_time = s3, !.end_time = e3]

\* One pass of the loop body (lines 614-622) on seg, prev being the
\* already rewritten predecessor (None for the first segment).
FinalizeStep(seg, prev, duration) ==
    LET s1 == RMax(RZero, seg.start_time)
        e1 == RMax(RAdd(s1, Rat(5, 100)), seg.end_time)
        s2 == IF RLt(RZero, duration) THEN RMin(s1, duration) ELSE s1
        e2 == IF RLt(RZero, duration) THEN RMin(e1, duration) ELSE e1
        pushed == ~IsNone(prev) /\ RLt(s2, Val(prev).end_time)
        s3 == IF pushed THEN Val(prev).end_time ELSE s2
        \* min(start + 0.1, duration or start + 0.1)
        bound == IF duration # RZero THEN duration ELSE RAdd(s3, Rat(1, 10))
        e3 == IF pushed /\ RLe(e2, s3) THEN RMin(RAdd(s3, Rat(1, 10)), bound)
              ELSE e2
    IN  [seg EXCEPT !.start_time = s3, !.end_time = e3]

RECURSIVE FinalizeLoop(_, _, _, _)
FinalizeLoop(normalized, idx, acc, duration) ==
    IF idx > Len(normalized) THEN acc
    ELSE FinalizeLoop(normalized, idx + 1,
           Append(acc, FinalizeStep(normalized[idx],
                                    IF idx > 1 THEN Some(acc[idx - 1]) ELSE None,
                                    duration)),
           duration)

_finalize_segments(segments, duration) ==
    IF Len(segments) = 0 THEN << >>
    ELSE
      LET normalized == normalize_transcription_segments(segments, Some(duration))
      IN  IF Len(normalized) = 0 THEN << >>
          ELSE FinalizeLoop(normalized, 1, << >>, duration)

(***************************************************************************)
(* Diarization spans and alignment (inference.py).                         *)
(***************************************************************************)
\* _single_speaker_segments
_single_speaker_segments(duration) ==
    << [speaker |-> "Speaker_0", start |-> RZero,
        end |-> RMax(duration, Rat(1, 10))] >>

\* A span handed on as a dict (keys speaker, start, end with float times).
SpanEntry(span) ==
    [speaker |-> Lbl(span.speaker), start |-> Num(span.start), end |-> Num(span.end)]

SpanEntries(list) == [i \in 1..Len(list) |-> SpanEntry(list[i])]

\* str(seg.get("speaker") or "Speaker_0").strip() or "Speaker_0"
SpanSpeaker(seg) ==
    LET v == Get(seg, "speaker")
    IN  IF LabelTruthy(v) /\ v.s # "" THEN v.s ELSE "Speaker_0"

\* The filter loop (lines 495-503).
RECURSIVE ParseSpans(_, _, _)
ParseSpans(segs, i, acc) ==
    IF i > Len(segs) THEN acc
    ELSE
      LET start == _safe_parse_time(Get(segs[i], "start"))
          end == _safe_parse_time(Get(segs[i], "end"))
      IN  IF IsNone(start) \/ IsNone(end) THEN ParseSpans(segs, i + 1, acc)
          ELSE IF RLe(Val(end), Val(start)) THEN ParseSpans(segs, i + 1, acc)
          ELSE ParseSpans(segs, i + 1,
                 Append(acc, [speaker |-> SpanSpeaker(segs[i]),
                              start |-> Val(start), end |-> Val(end)]))

\* list.sort(key=start): stable.
RECURSIVE InsertSpan(_, _, _)
InsertSpan(sorted, x, i) ==
    IF i > Len(sorted) THEN Append(sorted, x)
    ELSE IF RLt(x.start, sorted[i].start)
      THEN SubSeq(sorted, 1, i - 1) \o << x >> \o SubSeq(sorted, i, Len(sorted))
    ELSE InsertSpan(sorted, x, i + 1)

RECURSIVE SortSpans(_, _, _)
SortSpans(list, i, acc) ==
    IF i > Len(list) THEN acc
    ELSE SortSpans(list, i + 1, InsertSpan(acc, list[i], 1))

RAbs(a) == IF RLt(a, RZero) THEN RSub(RZero, a) ELSE a

\* The merge loop (lines 506-515).
RECURSIVE MergeSpans(_, _, _)
MergeSpans(list, i, merged) ==
    IF i > Len(list) THEN merged
    ELSE
      LET seg == list[i]
          n == Len(merged)
      IN  IF n > 0 /\ merged[n].speaker = seg.speaker
             /\ RLt(RAbs(RSub(merged[n].end, seg.start)), Rat(5, 100))
          THEN MergeSpans(list, i + 1, [merged EXCEPT ![n].end = seg.end])
          ELSE MergeSpans(list, i + 1, Append(merged, seg))

_normalize_speaker_segments(speaker_segments) ==
    MergeSpans(SortSpans(ParseSpans(speaker_segments, 1, << >>), 1, << >>), 1, << >>)

\* _overlap
_overlap(a_start, a_end, b_start, b_end) ==
    RMax(RZero, RSub(RMin(a_end, b_end), RMax(a_start, b_start)))

\* math.isclose(a, b): abs(a - b) <= 1e-9 * max(abs(a), abs(b)), computed
\* as floor(max / diff) >= 10^9 to stay within machine integers.
IsClose(a, b) ==
    \/ a = b
    \/ LET diff == RAbs(RSub(a, b))
           m == RMax(RAbs(a), RAbs(b))
       IN  (m.n * diff.d) \div (m.d * diff.n) >= 1000000000

\* The loop of _pick_best_speaker; best_distance None stands for infinity.
RECURSIVE PickLoop(_, _, _, _, _)
PickLoop(seg_start, seg_end, spans, i, best) ==
    IF i > Len(spans) THEN best.speaker
    ELSE
      LET sp == spans[i]
          seg_center == RDiv(RAdd(seg_start, seg_end), RInt(2))
          ov == _overlap(seg_start, seg_end, sp.start, sp.end)
          center == RDiv(RAdd(sp.start, sp.end), RInt(2))
          dist == RAbs(RSub(seg_center, center))
          closer == IsNone(best.distance) \/ RLt(dist, Val(best.distance))
      IN  IF RLt(best.overlap, ov) \/ (IsClose(ov, best.overlap) /\ closer)
          THEN PickLoop(seg_start, seg_end, spans, i + 1,
                 [speaker |-> sp.speaker, overlap |-> ov, distance |-> Some(dist)])
          ELSE PickLoop(seg_start, seg_end, spans, i + 1, best)

_pick_best_speaker(seg_start, seg_end, speaker_segments) ==
    PickLoop(seg_start, seg_end, speaker_segments, 1,
             [speaker |-> "Speaker_0", overlap |-> RInt(-1), distance |-> None])

\* Mutant of AlignNormalized: without diarization spans the segments keep
\* the speakers they came with.
AlignNormalized_KeepsSpeakers(normalized_transcription, parsed) ==
    IF Len(normalized_transcription) = 0 THEN << >>
    ELSE IF Len(parsed) = 0 THEN normalized_transcription
    ELSE [i \in 1..Len(normalized_transcription) |->
            [normalized_transcription[i] EXCEPT
               !.speaker = _pick_best_speaker(normalized_transcription[i].start_time,
                                              normalized_transcription[i].end_time,
                                              parsed)]]

\* align_transcription_with_speakers, lines 626-645, over the two
\* normalized lists.
AlignNormalized(normalized_transcription, parsed) ==
    LET normalized_speakers ==
            IF Len(parsed) > 0 THEN parsed
            ELSE _single_speaker_segments(MaxEnd(normalized_transcription, 1))
    IN  IF Len(normalized_transcription) = 0 THEN << >>
        ELSE [i \in 1..Len(normalized_transcription) |->
                [normalized_transcription[i] EXCEPT
                   !.speaker = _pick_best_speaker(normalized_transcription[i].start_time,
                                                  normalized_transcription[i].end_time,
                                                  normalized_speakers)]]

\* align_transcription_with_speakers
align_transcription_with_speakers(transcription_segments, speaker_segments) ==
    AlignNormalized(normalize_transcription_segments(transcription_segments, None),
                    _normalize_speaker_segments(speaker_segments))

(***************************************************************************)
(* Strings.  str.strip() and str.lower() are tables over the strings that  *)
(* occur; a string absent from a table is its own image.                   *)
(***************************************************************************)
Strip(s) ==
    CASE s = "  " -> ""
      [] s = " INT8 " -> "INT8"
      [] s = " de " -> "de"
      [] OTHER -> s

Lower(s) ==
    CASE s = "INT8" -> "int8"
      [] s = "FP16" -> "fp16"
      [] s = "VibeVoice" -> "vibevoice"
      [] s = "Speaker_0" -> "speaker_0"
      [] s = "SPEAKER_00" -> "speaker_00"
      [] s = "Alice" -> "alice"
      [] s = "Bob" -> "bob"
      [] s = "TRUE" -> "true"
      [] s = "Object of type dtype is not JSON serializable"
           -> "object of type dtype is not json serializable"
      [] s = "microsoft/VibeVoice-ASR" -> "microsoft/vibevoice-asr"
      [] OTHER -> s

\* Texts are sequences of fragments: literals of the source and texts of
\* foreign exceptions.  `needle in text` is decided per fragment.
FragmentContains ==
    { << "Failed to initialize VibeVoice ASR model: ", "initialize VibeVoice ASR model" >>,
      << "Failed to load model with all fallback loaders", "Failed to load model" >>,
      << "Failed to load model shard", "Failed to load model" >>,
      << "object of type dtype is not json serializable", "dtype" >>,
      << "object of type dtype is not json serializable", "not json serializable" >>,
      << "microsoft/vibevoice-asr-7b", "vibevoice-asr" >>,
      << "microsoft/vibevoice-asr", "vibevoice-asr" >> }

Contains(text, needle) ==
    \E i \in 1..Len(text) : << text[i], needle >> \in FragmentContains

LowerText(text) == [i \in 1..Len(text) |-> Lower(text[i])]

(***************************************************************************)
(* ModelLoader: pure parts (model_loader.py).                              *)
(***************************************************************************)
VIBEVOICE_ARCHIVE_URL ==
    "https://github.com/microsoft/VibeVoice/archive/1807b858d4f7dffdd286249a01616c243e488c9e.zip"
MANUAL_SETUP_COMMAND ==
    "powershell -NoProfile -ExecutionPolicy Bypass -File \"setup-vibevoice.ps1\""

\* The strings of dtype values are kept as their segments between dots:
\* "torch.float16" is << "torch", "float16" >>, "" is << "" >>.
\* torch dtypes: no string, no name attribute, str() is "torch.<name>".
TorchDtype(name) == [isstr |-> FALSE, name |-> None, text |-> name]
DtypeStr(s) == [isstr |-> TRUE, name |-> None, text |-> s]
\* An object with a name attribute (None: getattr gives None) and a str().
Named(name, text) == [isstr |-> FALSE, name |-> name, text |-> text]

\* ModelLoader._torch_dtype_for_precision
_torch_dtype_for_precision(precision, device) ==
    IF precision = "fp16" /\ device = "cuda" THEN TorchDtype(<< "torch", "float16" >>)
    ELSE TorchDtype(<< "torch", "float32" >>)

NoKwargs == [k \in {} |-> ""]

\* ModelLoader._build_model_load_kwargs: (kwargs, actual_precision);
\* quantization says whether BitsAndBytesConfig could be imported and built.
\* Mutant of _build_model_load_kwargs: int8 without CUDA resolves to fp16.
_build_model_load_kwargs_Int8NoCudaFp16(requested, device, quantization) ==
    LET actual == IF requested = "int8"
                    THEN IF device # "cuda" THEN "fp16"
                         ELSE IF quantization THEN "int8" ELSE "fp16"
                  ELSE requested
        quant == IF actual = "int8"
                   THEN ("quantization_config" :> "BitsAndBytesConfig(load_in_8bit=True)")
                        @@ ("device_map" :> "auto")
                 ELSE NoKwargs
        dtype == IF actual # "int8"
                   THEN "torch_dtype" :> _torch_dtype_for_precision(actual, device)
                 ELSE NoKwargs
    IN  [kwargs |-> quant @@ dtype, actual |-> actual]

_build_model_load_kwargs(requested, device, quantization) ==
    LET actual == IF requested = "int8"
                    THEN IF device # "cuda" THEN "fp32"
                         ELSE IF quantization THEN "int8" ELSE "fp16"
                  ELSE requested
        quant == IF actual = "int8"
                   THEN ("quantization_config" :> "BitsAndBytesConfig(load_in_8bit=True)")
                        @@ ("device_map" :> "auto")
                 ELSE NoKwargs
        dtype == IF actual # "int8"
                   THEN "torch_dtype" :> _torch_dtype_for_precision(actual, device)
                 ELSE NoKwargs
    IN  [kwargs |-> quant @@ dtype, actual |-> actual]

\* Mutant of _sanitize_native_model_kwargs: dtype replaces a torch_dtype
\* that is already there.
_sanitize_native_model_kwargs_DtypeWins(kwargs) ==
    LET withTorch ==
            IF "dtype" \in DOMAIN kwargs
              THEN ("torch_dtype" :> kwargs["dtype"]) @@ kwargs
            ELSE kwargs
    IN  [k \in DOMAIN withTorch \ { "dtype" } |-> withTorch[k]]

\* ModelLoader._sanitize_native_model_kwargs: the copy it builds and returns
_sanitize_native_model_kwargs(kwargs) ==
    LET withTorch ==
            IF "dtype" \in DOMAIN kwargs /\ "torch_dtype" \notin DOMAIN kwargs
              THEN kwargs @@ ("torch_dtype" :> kwargs["dtype"])
            ELSE kwargs
    IN  [k \in DOMAIN withTorch \ { "dtype" } |-> withTorch[k]]

\* text.startswith("torch.") and text.split(".", 1)[1]
TorchSuffix(text) ==
    IF Len(text) >= 2 /\ text[1] = "torch" THEN Some(Tail(text))
    ELSE None

\* Mutant of _torch_dtype_to_serializable: the name attribute is not read.
_torch_dtype_to_serializable_NoName(value) ==
    IF value.isstr THEN value.text
    ELSE IF ~IsNone(TorchSuffix(value.text)) THEN Val(TorchSuffix(value.text))
    ELSE value.text

\* ModelLoader._torch_dtype_to_serializable
_torch_dtype_to_serializable(value) ==
    IF value.isstr THEN value.text
    ELSE IF ~IsNone(value.name) /\ Val(value.name).isstr /\ Val(value.name).text # << "" >>
      THEN Val(value.name).text
    ELSE IF ~IsNone(TorchSuffix(value.text)) THEN Val(TorchSuffix(value.text))
    ELSE value.text

\* ModelLoader._is_vibevoice_asr_model
_is_vibevoice_asr_model(model_name) ==
    Contains(<< Lower(model_name) >>, "vibevoice-asr")

\* ModelLoader._vibevoice_runtime_status over what the environment holds:
\* package is "absent", "unreadable" or "present"; modules tells whether both
\* runtime modules import (None) or the text of the import error; deps tells
\* whether _dependency_runtime_status found every constraint met.
_vibevoice_runtime_status(package, modules, deps) ==
    LET head == CASE package = "absent" -> << "Package 'vibevoice' is not installed." >>
                  [] package = "unreadable" -> << "Could not read vibevoice package metadata: ", "boom" >>
                  [] OTHER -> << "Installed vibevoice package version: ", "1.0.0" >>
        missing == << "Required VibeVoice-ASR modules are unavailable:",
                      "- vibevoice.modular.modeling_vibevoice_asr: " >>
        depsText == IF deps THEN << "transformers version OK: ", "4.51.3" >>
                    ELSE << "transformers version mismatch: expected ", "4.51.3",
                            ", found ", "4.40.0" >>
    IN  IF package = "absent" THEN [ok |-> FALSE, details |-> head]
        ELSE IF ~IsNone(modules)
          THEN [ok |-> FALSE, details |-> head \o missing \o << Val(modules) >>]
        ELSE [ok |-> deps, details |-> head \o depsText]

\* ModelLoader._format_vibevoice_runtime_error
_format_vibevoice_runtime_error(self, runtime_details) ==
    << "VibeVoice-ASR runtime is unavailable or incompatible.",
       "Model: ", self.config.model_name >>
    \o runtime_details
    \o (IF ~IsNone(self._last_native_error)
          THEN << "Last native loader error: " >> \o Val(self._last_native_error)
        ELSE << >>)
    \o << "Run setup-vibevoice.ps1 to install or repair dependencies.",
          "Transformers fallback is disabled for microsoft/VibeVoice-ASR until native runtime modules are healthy.",
          "Run manually:",
          MANUAL_SETUP_COMMAND,
          "Expected pinned runtime source: ", VIBEVOICE_ARCHIVE_URL >>

\* Mutant of _segments_need_external_diarization: a single real speaker
\* label counts as a placeholder.
_segments_need_external_diarization_AnyLabel(segments, diarization_fallback) ==
    LET speakers == { Strip(segments[i].speaker) : i \in 1..Len(segments) } \ { "" }
    IN  IF Len(segments) <= 1 THEN FALSE
        ELSE IF Lower(diarization_fallback) \notin { "1", "true", "yes" } THEN FALSE
        ELSE Cardinality(speakers) <= 1

\* ModelLoader._segments_need_external_diarization; diarization_fallback is
\* the value of VIBEVOICE_ENABLE_DIARIZATION_FALLBACK (default "1").
_segments_need_external_diarization(segments, diarization_fallback) ==
    LET speakers == { Strip(segments[i].speaker) : i \in 1..Len(segments) } \ { "" }
    IN  IF Len(segments) <= 1 THEN FALSE
        ELSE IF Lower(diarization_fallback) \notin { "1", "true", "yes" } THEN FALSE
        ELSE IF Cardinality(speakers) > 1 THEN FALSE
        ELSE IF speakers = {} THEN TRUE
        ELSE Lower(CHOOSE s \in speakers : TRUE)
               \in { "speaker_0", "speaker0", "speaker_00", "unknown" }

\* Mutant of run_speaker_diarization: the normalized turns are returned
\* also when none is left.
run_speaker_diarization_NoFallback(duration, pyannote) ==
    LET fallback == _single_speaker_segments(duration)
    IN  IF IsNone(pyannote) THEN fallback
        ELSE _normalize_speaker_segments(Val(pyannote))

\* run_speaker_diarization: pyannote is None when diarization is disabled,
\* has no token, is not installed or fails, and else the turns it yields.
run_speaker_diarization(duration, pyannote) ==
    LET fallback == _single_speaker_segments(duration)
    IN  IF IsNone(pyannote) THEN fallback
        ELSE LET normalized == _normalize_speaker_segments(Val(pyannote))
             IN  IF Len(normalized) > 0 THEN normalized ELSE fallback

\* len(audio) / sample_rate if sample_rate > 0 else 0.0
DiarizationDuration(samples, sample_rate) ==
    IF sample_rate > 0 THEN Rat(samples, sample_rate) ELSE RZero

\* os.getenv("HF_TOKEN") or os.getenv("HUGGINGFACE_TOKEN"): unset and ""
\* are falsy.
DiarizationToken(env) ==
    IF ~IsNone(env.hf_token) /\ Val(env.hf_token) # "" THEN env.hf_token
    ELSE env.hub_token

\* What lines 532-578 leave of pyannote: None when diarization is disabled,
\* the token is missing, the import raises ImportError ("missing") or a
\* call of the library raises ("load_error", "write_error", "run_error");
\* else the turns it yields.
PyannoteTurns(env) ==
    IF Lower(env.enable) \notin { "1", "true", "yes" } THEN None
    ELSE IF IsNone(DiarizationToken(env)) \/ Val(DiarizationToken(env)) = "" THEN None
    ELSE IF env.library # "ok" THEN None
    ELSE Some(env.turns)

\* The temporary wav file after the finally block (lines 584-589): "none"
\* when none was made, "left" when unlink raised OSError, else "removed".
TempFile(env) ==
    IF Lower(env.enable) \notin { "1", "true", "yes" } THEN "none"
    ELSE IF IsNone(DiarizationToken(env)) \/ Val(DiarizationToken(env)) = "" THEN "none"
    ELSE IF env.library \in { "missing", "load_error" } THEN "none"
    ELSE IF env.unlink = "OSError" THEN "left"
    ELSE "removed"

\* Mutant of Synthesize: no segment is made from the raw text.
Synthesize_Nothing(segments, raw_text, duration) == segments

\* ModelLoader.transcribe, lines 664-674: the segment synthesized from the
\* raw text when no segment was parsed.
Synthesize(segments, raw_text, duration) ==
    IF Len(segments) = 0 /\ Len(raw_text) > 0
      THEN << [speaker |-> "Speaker_0", start_time |-> RZero,
               end_time |-> RMax(duration, Rat(1, 10)), text |-> raw_text] >>
    ELSE segments

\* ModelLoader.transcribe, lines 676-683.
Diarize(segments, duration, diarization_fallback, pyannote) ==
    IF _segments_need_external_diarization(segments, diarization_fallback)
      THEN align_transcription_with_speakers(
             AsEntries(segments),
             SpanEntries(run_speaker_diarization(duration, pyannote)))
    ELSE segments

\* The segment pipeline of ModelLoader.transcribe (lines 659-685).
TranscribeSegments(inference_result, duration, diarization_fallback, pyannote) ==
    _finalize_segments(
      AsEntries(
        Diarize(
          Synthesize(
            normalize_transcription_segments(AsEntries(inference_result.segments),
                                             Some(duration)),
            inference_result.raw_text, duration),
          duration, diarization_fallback, pyannote)),
      duration)

\* What ModelLoader.transcribe returns (lines 686-701).
TranscribeResult(self, segments, duration, language) ==
    [segments |-> segments,
     metadata |-> [duration |-> duration,
                   language |-> IF language # "" /\ language # "auto" THEN language
                                ELSE "auto",
                   num_speakers |-> Cardinality({ segments[i].speaker : i \in 1..Len(segments) }),
                   model_precision |-> self._actual_precision,
                   backend |-> self._backend]]

\* run_inference's result from the generated text and the raw segments.
InferenceResult(generated_text, raw_segments) ==
    [raw_text |-> generated_text,
     segments |-> normalize_transcription_segments(raw_segments, None)]

(***************************************************************************)
(* State.                                                                  *)
(***************************************************************************)
VARIABLES
    \* --- the segment functions applied to drawn inputs ---
    segPc,        \* the position of the function applied: "off", "input", "normalized", ...
    rawSegments,  \* the list of raw entries
    segDuration,  \* the fallback duration (Optional) / the audio duration
    segResult,    \* the list returned
    timeValue,    \* the value handed to _safe_parse_time
    timeParsed,   \* what _safe_parse_time gave for it
    speakerSegments, \* the diarization spans handed to the aligner
    segRaised,    \* Optional: the exception a segment function raised
    generatedText, \* the text run_inference decoded (its words)
    envFallback,  \* the value of VIBEVOICE_ENABLE_DIARIZATION_FALLBACK
    model_kwargs, \* the mapping handed to _sanitize_native_model_kwargs
    native_kwargs, \* the mapping it returned
    dtypeValue,   \* the value handed to _torch_dtype_to_serializable
    serializable, \* Optional: what it returned
    diarEnv,      \* what run_speaker_diarization finds: environment, audio, pyannote
    localEnv,     \* the environment variables, the candidate directories and sys.path
    \* --- worker_once.main ---
    wpc,          \* position in main(): "off", "start", ... "exited"
    stdin,        \* what sys.stdin.read() returns
    modelName,    \* config.model_config.model_name (VIBEVOICE_MODEL_NAME)
    request,      \* the request dict
    precision,    \* main's local
    language,     \* main's local
    audio_data,   \* main's local: "" (no bytes) or the bytes read
    exitCode,     \* Optional: the code given to sys.exit
    stdout,       \* what was written to sys.stdout
    stderr,       \* what was written to sys.stderr (log lines and payloads)
    \* --- ModelLoader ---
    loader,       \* Optional: the ModelLoader instance
    lpc,          \* position in load_model(): "idle", "call", ... "returned", "raised"
    frame,        \* locals of load_model and of the loader functions it calls
    raised,       \* Optional: str(exc) of the exception in flight
    calls,        \* history of the calls made
    \* --- ModelLoader.transcribe ---
    duration,     \* transcribe's local
    inference_result,
    result,       \* Optional: what transcribe returned
    \* --- the callers of a ModelLoader handle ---
    hpc,          \* the method of the handle in progress: "off", "idle", "load_model", ...
    outcome,      \* Optional: the last method that ended and the exception it raised
    task          \* the requests of the service: kind, precision, position, status

dtypeVars == << model_kwargs, native_kwargs, dtypeValue, serializable >>
segFnVars == << segPc, rawSegments, segDuration, segResult, timeValue, timeParsed,
             speakerSegments, segRaised, generatedText, envFallback, dtypeVars, diarEnv >>
segVars == << segFnVars, localEnv >>
workerVars == << wpc, stdin, modelName, request, precision, language, audio_data,
                 exitCode, stdout, stderr >>
loaderVars == << loader, lpc, frame, raised, calls >>
transcribeVars == << duration, inference_result, result >>
callerVars == << hpc, outcome, task >>
vars == << segVars, workerVars, loaderVars, transcribeVars, callerVars >>

EmptyFrame ==
    [model_kwargs |-> [k \in {} |-> ""], runtime_details |-> << >>,
     native_kwargs |-> [k \in {} |-> ""], retry_kwargs |-> [k \in {} |-> ""],
     processor |-> None, model |-> None, k |-> 0]

\* run_speaker_diarization is not running: the environment is unset (the
\* defaults apply), there is no audio and no pyannote.
DiarOff ==
    diarEnv = [enable |-> "1", hf_token |-> None, hub_token |-> None,
               library |-> "missing", turns |-> << >>, unlink |-> "ok",
               samples |-> 0, sample_rate |-> 16000, temp |-> "none"]

\* No environment variable of the local source discovery is set, no
\* candidate directory holds the package, and sys.path is as the interpreter
\* made it.
LocalOff ==
    localEnv = [VIBEVOICE_SOURCE_DIR |-> "", VIBEVOICE_ALLOW_LOCAL_SOURCE |-> None,
                TRISPR_DEV_BUILD |-> None, packaged |-> {}, installed |-> "present",
                sys_path |-> << "site-packages" >>]

\* The dtype functions are not running.
DtypeOff ==
    /\ model_kwargs = NoKwargs
    /\ native_kwargs = NoKwargs
    /\ dtypeValue = DtypeStr(<< "float16" >>)
    /\ serializable = None

\* The segment functions are not running.
SegOff ==
    /\ segPc = "off"
    /\ rawSegments = << >>
    /\ segDuration = None
    /\ segResult = << >>
    /\ timeValue = NoneV
    /\ timeParsed = None
    /\ speakerSegments = << >>
    /\ segRaised = None
    /\ generatedText = << >>
    /\ envFallback = "1"
    /\ DtypeOff
    /\ DiarOff

\* No caller of a handle besides the worker.
CallerOff ==
    /\ hpc = "off"
    /\ outcome = None
    /\ task = << >>

\* Nothing of the worker has run: the values before main() reads stdin.
WorkerFresh ==
    /\ request = [k \in {} |-> ""]
    /\ precision = ""
    /\ language = ""
    /\ audio_data = ""
    /\ exitCode = None
    /\ stdout = << >>
    /\ stderr = << >>
    /\ loader = None
    /\ lpc = "idle"
    /\ frame = EmptyFrame
    /\ raised = None
    /\ calls = << >>
    /\ duration = RZero
    /\ inference_result = [raw_text |-> << >>, segments |-> << >>]
    /\ result = None

\* The worker is not running.
WorkerOff ==
    /\ LocalOff
    /\ wpc = "off"
    /\ stdin = [kind |-> "empty"]
    /\ modelName = ""
    /\ WorkerFresh
    /\ CallerOff

(***************************************************************************)
(* Inputs of the segment functions.                                        *)
(***************************************************************************)
EmptyEntry == [k \in {} |-> NoneV]

\* No start, "start_time": 0 (falsy, lost in the or-chain), "start_time": 0
\* with "start": 20, "Start": 0 (last alias, kept), a late start, a negative
\* start.
StartFields ==
    { EmptyEntry,
      "start_time" :> Num(RInt(0)),
      ("start_time" :> Num(RInt(0))) @@ ("start" :> Num(RInt(20))),
      "Start" :> Num(RInt(0)),
      "start" :> Num(RInt(20)),
      "start_time" :> Num(RInt(-1)) }

\* No end, "end": 20.
EndFields ==
    { EmptyEntry,
      "end" :> Num(RInt(20)) }

\* Entries with text "hi" and the fields above; an entry of blank text; an
\* entry with aliased text and speaker keys and no times; an entry with its
\* times as strings "0:00" and "0:02"; the same with the key "end"; an entry
\* "there" starting at "0:01" with no end; an entry whose start is an int
\* beyond the float range; a str in place of an entry.
RawEntries ==
    { ("text" :> Txt(<< "hi" >>)) @@ s @@ e : s \in StartFields, e \in EndFields }
    \cup { "text" :> WsTxt,
           ("Content" :> Txt(<< "a", "b", "c", "d" >>)) @@ ("Speaker" :> Lbl("Alice")),
           ("text" :> Txt(<< "hi" >>)) @@ ("start" :> Str(<< PNum(0), PNum(0) >>))
             @@ ("End" :> Str(<< PNum(0), PNum(2) >>)),
           ("text" :> Txt(<< "hi" >>)) @@ ("start" :> Str(<< PNum(0), PNum(0) >>))
             @@ ("end" :> Str(<< PNum(0), PNum(2) >>)),
           ("text" :> Txt(<< "there" >>)) @@ ("start" :> Str(<< PNum(0), PNum(1) >>)),
           ("text" :> Txt(<< "hi" >>)) @@ ("start" :> BigInt),
           NotADict }

RECURSIVE SeqsUpTo(_, _)
SeqsUpTo(S, n) ==
    IF n = 0 THEN { << >> }
    ELSE LET shorter == SeqsUpTo(S, n - 1)
         IN  shorter \cup { Append(q, x) : q \in { r \in shorter : Len(r) = n - 1 }, x \in S }

FallbackDurations == { None, Some(RInt(-1)), Some(RInt(0)), Some(RInt(1)), Some(RInt(10)) }
AudioDurations == { RInt(0), RInt(1), RInt(10) }

InitSeg ==
    /\ segPc = "input"
    /\ rawSegments \in SeqsUpTo(RawEntries, MaxLen)
    /\ segDuration = None
    /\ segResult = << >>
    /\ timeValue = NoneV
    /\ timeParsed = None
    /\ speakerSegments = << >>
    /\ segRaised = None
    /\ generatedText = << >>
    /\ envFallback = "1"
    /\ DtypeOff
    /\ DiarOff
    /\ WorkerOff

\* normalize_transcription_segments(rawSegments, fb)
Normalize(fb) ==
    /\ segPc = "input"
    /\ segDuration' = fb
    /\ IF ~IsNone(NormalizeRaises(rawSegments, 1))
         THEN /\ segPc' = "raised"
              /\ segRaised' = NormalizeRaises(rawSegments, 1)
              /\ UNCHANGED segResult
       ELSE /\ segPc' = "normalized"
            /\ segResult' = normalize_transcription_segments(rawSegments, fb)
            /\ UNCHANGED segRaised
    /\ UNCHANGED << rawSegments, timeValue, timeParsed, speakerSegments,
                    generatedText, envFallback, dtypeVars, diarEnv, localEnv,
                    callerVars, workerVars, loaderVars,
                    transcribeVars >>

\* ModelLoader._finalize_segments(rawSegments, d)
Finalize(d) ==
    /\ segPc = "input"
    /\ segDuration' = Some(d)
    /\ IF Len(rawSegments) > 0 /\ ~IsNone(NormalizeRaises(rawSegments, 1))
         THEN /\ segPc' = "raised"
              /\ segRaised' = NormalizeRaises(rawSegments, 1)
              /\ UNCHANGED segResult
       ELSE /\ segPc' = "finalized"
            /\ segResult' = _finalize_segments(rawSegments, d)
            /\ UNCHANGED segRaised
    /\ UNCHANGED << rawSegments, timeValue, timeParsed, speakerSegments,
                    generatedText, envFallback, dtypeVars, diarEnv, localEnv,
                    callerVars, workerVars, loaderVars,
                    transcribeVars >>

\* normalize_transcription_segments(segResult, fb) on the list the first
\* call returned, as ModelLoader.transcribe (659), the aligner (625) and
\* _finalize_segments (609) do; fb is the same duration again, or None.
Renormalize(fb) ==
    /\ segPc = "normalized"
    /\ fb \in { segDuration, None }
    /\ segPc' = "renormalized"
    /\ segResult' = normalize_transcription_segments(AsEntries(segResult), fb)
    /\ UNCHANGED << rawSegments, segDuration, timeValue, timeParsed, speakerSegments,
                    segRaised, generatedText, envFallback, dtypeVars, diarEnv, localEnv,
                    callerVars, workerVars, loaderVars, transcribeVars >>

NextSeg ==
    \/ \E fb \in FallbackDurations : Normalize(fb)
    \/ \E d \in AudioDurations : Finalize(d)
    \/ \E fb \in FallbackDurations : Renormalize(fb)

SpecSeg == InitSeg /\ [][NextSeg]_vars

(***************************************************************************)
(* _safe_parse_time applied to drawn values, and to its own result.        *)
(***************************************************************************)
\* Longest time string, in parts between colons.
MaxParts == 4

TimeParts == { PNum(0), PNum(2), PDirty(2), PJunk, PExp }

\* None, numbers (0, negative, fractional, an int beyond the float range) and
\* strings: blank, "abc", "2s", "1:02", "0:01:02", "1:2:3:4", "1:xx", ...
TimeValues ==
    { NoneV, BigInt }
    \cup { Num(r) : r \in { RInt(0), RInt(3), RInt(-2), Rat(5, 2) } }
    \cup { Str(parts) : parts \in SeqsUpTo(TimeParts, MaxParts) }

InitParse ==
    /\ segPc = "value"
    /\ rawSegments = << >>
    /\ segDuration = None
    /\ segResult = << >>
    /\ timeValue \in TimeValues
    /\ timeParsed = None
    /\ speakerSegments = << >>
    /\ segRaised = None
    /\ generatedText = << >>
    /\ envFallback = "1"
    /\ DtypeOff
    /\ DiarOff
    /\ WorkerOff

\* _safe_parse_time(timeValue)
Parse ==
    /\ segPc = "value"
    /\ segPc' = "parsed"
    /\ timeParsed' = _safe_parse_time(timeValue)
    /\ UNCHANGED << rawSegments, segDuration, segResult, timeValue, speakerSegments,
                    segRaised, generatedText, envFallback, dtypeVars, diarEnv, localEnv, callerVars, workerVars,
                    loaderVars, transcribeVars >>

\* _safe_parse_time(_safe_parse_time(timeValue)), when the first call
\* returned a number.
Reparse ==
    /\ segPc = "parsed"
    /\ Len(timeParsed) = 1
    /\ segPc' = "reparsed"
    /\ timeValue' = Num(Val(timeParsed))
    /\ timeParsed' = _safe_parse_time(Num(Val(timeParsed)))
    /\ UNCHANGED << rawSegments, segDuration, segResult, speakerSegments, segRaised,
                    generatedText, envFallback, dtypeVars, diarEnv, localEnv,
                    callerVars, workerVars, loaderVars, transcribeVars >>

NextParse ==
    \/ Parse
    \/ Reparse

SpecParse == InitParse /\ [][NextParse]_vars

(***************************************************************************)
(* align_transcription_with_speakers applied to drawn transcripts and      *)
(* diarization spans.                                                      *)
(***************************************************************************)
\* Longest transcript and longest list of spans handed to the aligner.
MaxTranscript == 2
MaxSpans == 3

TimedEntry(words, start, end) ==
    ("text" :> Txt(words)) @@ ("start" :> Num(start)) @@ ("end" :> Num(end))

RawSpan(speaker, start, end) ==
    ("speaker" :> Lbl(speaker)) @@ ("start" :> Num(start)) @@ ("end" :> Num(end))

\* Transcript entries: [1, 2]; [3, 4] said by Bob; [0, 10]; blank text;
\* [-5, -3]; [0.01, 0.05].
AlignEntries ==
    { TimedEntry(<< "hi" >>, RInt(1), RInt(2)),
      TimedEntry(<< "yo" >>, RInt(3), RInt(4)) @@ ("speaker" :> Lbl("Bob")),
      TimedEntry(<< "hi" >>, RInt(0), RInt(10)),
      "text" :> WsTxt,
      TimedEntry(<< "hi" >>, RInt(-5), RInt(-3)),
      TimedEntry(<< "hi" >>, Rat(1, 100), Rat(5, 100)) }

\* Spans: A [0, 10], B [1.5, 2.5], C [0.5, 1.9], A [10, 20], B [0, 1], a span
\* without end, a span of no duration, A [2, 3] within the first span and
\* A [9.98, 9.99] ending just before the first span does.
RawSpans ==
    { RawSpan("A", RInt(0), RInt(10)),
      RawSpan("B", Rat(3, 2), Rat(5, 2)),
      RawSpan("C", Rat(1, 2), Rat(19, 10)),
      RawSpan("A", RInt(10), RInt(20)),
      RawSpan("B", RInt(0), RInt(1)),
      ("speaker" :> Lbl("A")) @@ ("start" :> Num(RInt(3))),
      RawSpan("B", RInt(5), RInt(5)),
      RawSpan("A", RInt(2), RInt(3)),
      RawSpan("A", Rat(998, 100), Rat(999, 100)) }

\* A long entry [1, 1001], a span A [0.5, 1002] around it and a span
\* B [1.0000005, 1001] that starts half a microsecond after it.
LongEntry == TimedEntry(<< "hi" >>, RInt(1), RInt(1001))
WideSpan == RawSpan("A", Rat(1, 2), RInt(1002))
NearSpan == RawSpan("B", Rat(2000001, 2000000), RInt(1001))

InitAlign ==
    /\ segPc = "align"
    /\ \/ /\ rawSegments \in SeqsUpTo(AlignEntries, MaxTranscript)
          /\ speakerSegments \in SeqsUpTo(RawSpans, MaxSpans)
       \/ /\ rawSegments = << LongEntry >>
          /\ speakerSegments \in { << WideSpan >>, << WideSpan, NearSpan >>,
                                    << NearSpan, WideSpan >> }
    /\ segDuration = None
    /\ segResult = << >>
    /\ timeValue = NoneV
    /\ timeParsed = None
    /\ segRaised = None
    /\ generatedText = << >>
    /\ envFallback = "1"
    /\ DtypeOff
    /\ DiarOff
    /\ WorkerOff

\* align_transcription_with_speakers(rawSegments, speakerSegments)
Align ==
    /\ segPc = "align"
    /\ segPc' = "aligned"
    /\ segResult' = align_transcription_with_speakers(rawSegments, speakerSegments)
    /\ UNCHANGED << rawSegments, segDuration, timeValue, timeParsed, speakerSegments,
                    segRaised, generatedText, envFallback, dtypeVars, diarEnv, localEnv, callerVars, workerVars, loaderVars, transcribeVars >>

\* _pick_best_speaker(start, end, spans) for every segment of the normalized
\* transcript, over the spans in the order they were listed (those with
\* parsed bounds and end > start).
Pick ==
    /\ segPc = "align"
    /\ Len(ParseSpans(speakerSegments, 1, << >>)) > 0
    /\ segPc' = "picked"
    /\ segResult' =
         [i \in 1..Len(normalize_transcription_segments(rawSegments, None)) |->
            [normalize_transcription_segments(rawSegments, None)[i] EXCEPT
               !.speaker = _pick_best_speaker(
                             normalize_transcription_segments(rawSegments, None)[i].start_time,
                             normalize_transcription_segments(rawSegments, None)[i].end_time,
                             ParseSpans(speakerSegments, 1, << >>))]]
    /\ UNCHANGED << rawSegments, segDuration, timeValue, timeParsed, speakerSegments,
                    segRaised, generatedText, envFallback, dtypeVars, diarEnv, localEnv, callerVars, workerVars, loaderVars, transcribeVars >>

\* _normalize_speaker_segments(speakerSegments)
NormalizeSpans ==
    /\ segPc = "align"
    /\ segPc' = "spans"
    /\ segResult' = _normalize_speaker_segments(speakerSegments)
    /\ UNCHANGED << rawSegments, segDuration, timeValue, timeParsed, speakerSegments,
                    segRaised, generatedText, envFallback, dtypeVars, diarEnv, localEnv, callerVars, workerVars, loaderVars, transcribeVars >>

NextAlign == Align \/ Pick \/ NormalizeSpans

SpecAlign == InitAlign /\ [][NextAlign]_vars

(***************************************************************************)
(* The segment pipeline of ModelLoader.transcribe (lines 659-685) applied  *)
(* to drawn generations.                                                   *)
(***************************************************************************)
\* An entry "hi" from 0 to 2 with the speaker value given (NoneV: no key).
LabelledEntry(label) ==
    IF label = NoneV THEN TimedEntry(<< "hi" >>, RInt(0), RInt(2))
    ELSE TimedEntry(<< "hi" >>, RInt(0), RInt(2)) @@ ("speaker" :> label)

\* No speaker, two real speakers, placeholders in other cases, white space.
SpeakerValues ==
    { NoneV, Lbl("Alice"), Lbl("Bob"), Lbl("SPEAKER_00"), Lbl("unknown"), WsLbl }

GeneratedEntries ==
    { LabelledEntry(label) : label \in SpeakerValues } \cup { "text" :> WsTxt }

\* pyannote: unavailable, or two turns.
Pyannotes ==
    { None,
      Some(<< [speaker |-> Lbl("Alice"), start |-> Num(RInt(0)), end |-> Num(RInt(1))],
              [speaker |-> Lbl("Bob"), start |-> Num(RInt(1)), end |-> Num(RInt(30))] >>) }

\* VIBEVOICE_ENABLE_DIARIZATION_FALLBACK: unset (the default "1"), "0",
\* "TRUE", set to nothing.
EnvFallbacks == { "1", "0", "TRUE", "" }

InitPipeline ==
    /\ segPc = "generated"
    /\ rawSegments \in SeqsUpTo(GeneratedEntries, MaxLen)
    /\ generatedText \in { << >>, << "hello" >> }
    /\ segDuration \in { Some(RInt(1)), Some(RInt(10)) }
    /\ envFallback \in EnvFallbacks
    /\ DtypeOff
    /\ DiarOff
    /\ segResult = << >>
    /\ timeValue = NoneV
    /\ timeParsed = None
    /\ speakerSegments = << >>
    /\ segRaised = None
    /\ WorkerOff

\* The segments on which transcribe decides about diarization (lines 659-674).
PreDiarization(text, raw_segments, d) ==
    Synthesize(
      normalize_transcription_segments(AsEntries(InferenceResult(text, raw_segments).segments),
                                       Some(d)),
      text, d)

\* Lines 659-685 after run_inference returned generatedText and rawSegments:
\* the position tells whether run_speaker_diarization was called, and
\* speakerSegments holds what it returned.
Segments(pyannote) ==
    /\ segPc = "generated"
    /\ segPc' = IF _segments_need_external_diarization(
                     PreDiarization(generatedText, rawSegments, Val(segDuration)), envFallback)
                THEN "diarized" ELSE "kept"
    /\ speakerSegments' =
          IF _segments_need_external_diarization(
               PreDiarization(generatedText, rawSegments, Val(segDuration)), envFallback)
          THEN SpanEntries(run_speaker_diarization(Val(segDuration), pyannote))
          ELSE << >>
    /\ segResult' = TranscribeSegments(InferenceResult(generatedText, rawSegments),
                                       Val(segDuration), envFallback, pyannote)
    /\ UNCHANGED << rawSegments, segDuration, timeValue, timeParsed, segRaised,
                    generatedText, envFallback, dtypeVars, diarEnv, localEnv, callerVars, workerVars, loaderVars,
                    transcribeVars >>

NextPipeline == \E pyannote \in Pyannotes : Segments(pyannote)

SpecPipeline == InitPipeline /\ [][NextPipeline]_vars

(***************************************************************************)
(* The dtype functions of the loader on drawn inputs.                      *)
(***************************************************************************)
\* str() of the values drawn: with and without the prefix, the prefix alone,
\* a longer dotted text, and texts that only look like the prefix.
DtypeTexts ==
    { << "float16" >>, << "torch", "float32" >>, << "torch", "" >>, << "torch" >>,
      << "torch", "a", "b" >>, << "xtorch", "float32" >>, << "Torch", "float32" >>,
      << "a", "torch", "b" >>, << "None" >>, << "" >> }

\* The name attribute of the values drawn: none, a str, "", an int.
DtypeNames ==
    { None, Some(DtypeStr(<< "bfloat16" >>)), Some(DtypeStr(<< "torch", "float64" >>)),
      Some(DtypeStr(<< "" >>)), Some(Named(None, << "5" >>)) }

DtypeValues ==
    { DtypeStr(t) : t \in DtypeTexts }
    \cup { Named(n, t) : n \in DtypeNames, t \in DtypeTexts }

\* The dtype values the kwargs mappings carry.
KwargDtypes ==
    { DtypeStr(<< "float16" >>), DtypeStr(<< "float32" >>),
      TorchDtype(<< "torch", "float16" >>), Named(None, << "None" >>) }

OtherKwargs ==
    ("quantization_config" :> "BitsAndBytesConfig(load_in_8bit=True)")
    @@ ("device_map" :> "auto") @@ ("trust_remote_code" :> "True")

KwargsMappings ==
    { d @@ t @@ [k \in o |-> OtherKwargs[k]] :
        d \in { NoKwargs } \cup { "dtype" :> v : v \in KwargDtypes },
        t \in { NoKwargs } \cup { "torch_dtype" :> v : v \in KwargDtypes },
        o \in SUBSET DOMAIN OtherKwargs }

InitDtype ==
    /\ segPc = "dtype"
    /\ rawSegments = << >>
    /\ segDuration = None
    /\ segResult = << >>
    /\ timeValue = NoneV
    /\ timeParsed = None
    /\ speakerSegments = << >>
    /\ segRaised = None
    /\ generatedText = << >>
    /\ envFallback = "1"
    /\ model_kwargs \in KwargsMappings
    /\ native_kwargs = NoKwargs
    /\ dtypeValue \in DtypeValues
    /\ serializable = None
    /\ DiarOff
    /\ WorkerOff

\* native_kwargs = _sanitize_native_model_kwargs(model_kwargs): the function
\* works on dict(model_kwargs), so model_kwargs itself is written nowhere.
Sanitize ==
    /\ segPc = "dtype"
    /\ segPc' = "sanitized"
    /\ native_kwargs' = _sanitize_native_model_kwargs(model_kwargs)
    /\ UNCHANGED << rawSegments, segDuration, segResult, timeValue, timeParsed,
                    speakerSegments, segRaised, generatedText, envFallback,
                    model_kwargs, dtypeValue, serializable, diarEnv, localEnv,
                    callerVars, workerVars, loaderVars, transcribeVars >>

\* native_kwargs = _sanitize_native_model_kwargs(native_kwargs)
Resanitize ==
    /\ segPc = "sanitized"
    /\ segPc' = "resanitized"
    /\ native_kwargs' = _sanitize_native_model_kwargs(native_kwargs)
    /\ UNCHANGED << rawSegments, segDuration, segResult, timeValue, timeParsed,
                    speakerSegments, segRaised, generatedText, envFallback,
                    model_kwargs, dtypeValue, serializable, diarEnv, localEnv,
                    callerVars, workerVars, loaderVars, transcribeVars >>

\* serializable = _torch_dtype_to_serializable(dtypeValue)
Serialize ==
    /\ segPc = "dtype"
    /\ segPc' = "serialized"
    /\ serializable' = Some(_torch_dtype_to_serializable(dtypeValue))
    /\ UNCHANGED << rawSegments, segDuration, segResult, timeValue, timeParsed,
                    speakerSegments, segRaised, generatedText, envFallback,
                    model_kwargs, native_kwargs, dtypeValue, diarEnv, localEnv,
                    callerVars, workerVars, loaderVars, transcribeVars >>

NextDtype == Sanitize \/ Resanitize \/ Serialize

SpecDtype == InitDtype /\ [][NextDtype]_vars

(***************************************************************************)
(* run_speaker_diarization (inference.py 519-589) in drawn environments.   *)
(***************************************************************************)
\* The turns pyannote yields: S1 [0, 1], S2 [1, 1.5], S1 [1.5, 3], a turn of
\* no duration, a turn that ends before it starts.
Turns ==
    { RawSpan("Alice", RInt(0), RInt(1)),
      RawSpan("Bob", RInt(1), Rat(3, 2)),
      RawSpan("Alice", Rat(3, 2), RInt(3)),
      RawSpan("Bob", RInt(5), RInt(5)),
      RawSpan("Alice", RInt(3), RInt(2)) }

\* The longest list of turns.
MaxTurns == 2

\* VIBEVOICE_ENABLE_PYANNOTE unset ("1"), "0", "TRUE", ""; HF_TOKEN unset,
\* "", set; HUGGINGFACE_TOKEN unset, set; pyannote missing, failing at one
\* of its calls, or yielding turns; unlink failing or not; no audio, 2 s,
\* 10 s, a sample rate of 0.
DiarEnvs ==
    { [enable |-> e, hf_token |-> h, hub_token |-> u, library |-> l.library,
       turns |-> l.turns, unlink |-> x, samples |-> a[1], sample_rate |-> a[2],
       temp |-> "none"] :
        e \in { "1", "0", "TRUE", "" },
        h \in { None, Some(""), Some("hf_x") },
        u \in { None, Some("hf_y") },
        l \in { [library |-> f, turns |-> << >>] :
                  f \in { "missing", "load_error", "write_error", "run_error" } }
              \cup { [library |-> "ok", turns |-> t] : t \in SeqsUpTo(Turns, MaxTurns) },
        x \in { "ok", "OSError" },
        a \in { << 0, 16000 >>, << 32000, 16000 >>, << 160000, 16000 >>, << 16000, 0 >> } }

InitDiar ==
    /\ segPc = "diarize"
    /\ rawSegments = << >>
    /\ segDuration = None
    /\ segResult = << >>
    /\ timeValue = NoneV
    /\ timeParsed = None
    /\ speakerSegments = << >>
    /\ segRaised = None
    /\ generatedText = << >>
    /\ envFallback = "1"
    /\ DtypeOff
    /\ diarEnv \in DiarEnvs
    /\ WorkerOff

\* run_speaker_diarization(audio, sample_rate): every exception of the
\* library is caught at lines 579-583, OSError of unlink at 588.
RunDiarization ==
    /\ segPc = "diarize"
    /\ segPc' = "diarization_returned"
    /\ segResult' = run_speaker_diarization(
                      DiarizationDuration(diarEnv.samples, diarEnv.sample_rate),
                      PyannoteTurns(diarEnv))
    /\ diarEnv' = [diarEnv EXCEPT !.temp = TempFile(diarEnv)]
    /\ UNCHANGED << rawSegments, segDuration, timeValue, timeParsed, speakerSegments,
                    segRaised, generatedText, envFallback, dtypeVars, localEnv,
                    callerVars, workerVars, loaderVars, transcribeVars >>

NextDiar == RunDiarization

SpecDiar == InitDiar /\ [][NextDiar]_vars

(***************************************************************************)
(* worker_once.py: one request per process.                                *)
(***************************************************************************)
NoFields == [k \in {} |-> ""]

\* A field of the request: absent or one of the values.
Field(key, values) == { NoFields } \cup { key :> v : v \in values }

\* The JSON objects sent: audio_path blank or a path, precision empty,
\* "fp16", " INT8 " or "fp32", a language, a backend.
Requests ==
    { a @@ p @@ l @@ b :
        a \in Field("audio_path", { "  ", "/audio/a.wav" }),
        p \in Field("precision", { "", "fp16", " INT8 ", "fp32" }),
        l \in Field("language", { " de " }),
        b \in Field("analysis_backend", { "VibeVoice", "whisper" }) }

\* stdin: blank, no JSON, JSON that is no object (a list), a JSON object.
Stdins ==
    { [kind |-> "empty"], [kind |-> "invalid"], [kind |-> "json", isdict |-> FALSE, data |-> NoFields] }
    \cup { [kind |-> "json", isdict |-> TRUE, data |-> r] : r \in Requests }

\* VIBEVOICE_MODEL_NAME: the default, the family in another case, another model.
ModelNames == { "microsoft/vibevoice-asr-7b", "microsoft/VibeVoice-ASR", "openai/whisper-small" }

\* str(exc) of a foreign exception.
ExceptionTexts ==
    { "boom", "Failed to load model shard", "Object of type dtype is not JSON serializable" }

\* A line of the logging module, which basicConfig sends to stderr.
Log(level, text) == [level |-> level, log |-> text]

\* str(request.get(key) or default)
GetOr(req, key, default) ==
    IF key \in DOMAIN req /\ req[key] # "" THEN req[key] ELSE default

InitWorker ==
    /\ SegOff
    /\ LocalOff
    /\ wpc = "start"
    /\ stdin \in Stdins
    /\ modelName \in ModelNames
    /\ WorkerFresh
    /\ CallerOff

\* Mutant of _fail: the payload goes to stdout.
_fail_OnStdout(exit_code, message, details) ==
    /\ stdout' = Append(stdout,
                   ("status" :> "error") @@ ("error" :> message)
                   @@ (IF Len(details) > 0 THEN "details" :> details ELSE NoFields))
    /\ exitCode' = Some(exit_code)
    /\ wpc' = "exited"
    /\ UNCHANGED stderr

\* _fail(exit_code, message, details): the payload goes to stderr, then
\* sys.exit(exit_code).
_fail(exit_code, message, details) ==
    /\ stderr' = Append(stderr,
                   ("status" :> "error") @@ ("error" :> message)
                   @@ (IF Len(details) > 0 THEN "details" :> details ELSE NoFields))
    /\ exitCode' = Some(exit_code)
    /\ wpc' = "exited"
    /\ UNCHANGED stdout

\* _load_request (lines 49-59)
LoadRequest ==
    /\ wpc = "start"
    /\ IF stdin.kind = "empty"
         THEN _fail(14, << "Worker request is empty" >>, << >>) /\ UNCHANGED request
       ELSE IF stdin.kind = "invalid"
         THEN _fail(14, << "Invalid worker request JSON: ", "Expecting value" >>, << >>)
              /\ UNCHANGED request
       ELSE IF ~stdin.isdict
         THEN _fail(14, << "Worker request must be a JSON object" >>, << >>)
              /\ UNCHANGED request
       ELSE /\ request' = stdin.data
            /\ wpc' = "validate"
            /\ UNCHANGED << exitCode, stdout, stderr >>
    /\ UNCHANGED << segVars, callerVars, stdin, modelName, precision, language, audio_data,
                    loaderVars, transcribeVars >>

\* Mutant of ValidateRequest: the backend is not checked.
ValidateRequest_AnyBackend(exists) ==
    LET audio_path == Strip(GetOr(request, "audio_path", ""))
        prec == Lower(Strip(GetOr(request, "precision", "fp16")))
        lang0 == Strip(GetOr(request, "language", "auto"))
        lang == IF lang0 = "" THEN "auto" ELSE lang0
        analysis_backend == Lower(Strip(GetOr(request, "analysis_backend", "vibevoice")))
    IN  /\ wpc = "validate"
        /\ IF audio_path = ""
             THEN _fail(14, << "audio_path is required" >>, << >>)
                  /\ UNCHANGED << precision, language >>
           ELSE IF prec \notin { "fp16", "int8" }
             THEN _fail(14, << "Unsupported precision: ", prec >>, << >>)
                  /\ precision' = prec
                  /\ UNCHANGED language
           ELSE IF FALSE
             THEN _fail(14, << "Unsupported analysis backend: ", analysis_backend >>, << >>)
                  /\ precision' = prec
                  /\ language' = lang
           ELSE IF ~exists
             THEN _fail(14, << "Audio file not found: ", audio_path >>, << >>)
                  /\ precision' = prec
                  /\ language' = lang
           ELSE /\ precision' = prec
                /\ language' = lang
                /\ wpc' = "import"
                /\ UNCHANGED << exitCode, stdout, stderr >>
        /\ UNCHANGED << segVars, callerVars, stdin, modelName, request, audio_data,
                        loaderVars, transcribeVars >>

\* main, lines 74-89: the fields and the audio file; exists is what
\* Path(audio_path).exists() answers.
ValidateRequest(exists) ==
    LET audio_path == Strip(GetOr(request, "audio_path", ""))
        prec == Lower(Strip(GetOr(request, "precision", "fp16")))
        lang0 == Strip(GetOr(request, "language", "auto"))
        lang == IF lang0 = "" THEN "auto" ELSE lang0
        analysis_backend == Lower(Strip(GetOr(request, "analysis_backend", "vibevoice")))
    IN  /\ wpc = "validate"
        /\ IF audio_path = ""
             THEN _fail(14, << "audio_path is required" >>, << >>)
                  /\ UNCHANGED << precision, language >>
           ELSE IF prec \notin { "fp16", "int8" }
             THEN _fail(14, << "Unsupported precision: ", prec >>, << >>)
                  /\ precision' = prec
                  /\ UNCHANGED language
           ELSE IF analysis_backend # "vibevoice"
             THEN _fail(14, << "Unsupported analysis backend: ", analysis_backend >>, << >>)
                  /\ precision' = prec
                  /\ language' = lang
           ELSE IF ~exists
             THEN _fail(14, << "Audio file not found: ", audio_path >>, << >>)
                  /\ precision' = prec
                  /\ language' = lang
           ELSE /\ precision' = prec
                /\ language' = lang
                /\ wpc' = "import"
                /\ UNCHANGED << exitCode, stdout, stderr >>
        /\ UNCHANGED << segVars, callerVars, stdin, modelName, request, audio_data,
                        loaderVars, transcribeVars >>

\* main, lines 91-95: import config and model_loader.
ImportRuntime(imported, text) ==
    /\ wpc = "import"
    /\ IF ~imported
         THEN _fail(10, << "Failed to import VibeVoice runtime: ", text >>, << >>)
       ELSE /\ wpc' = "read"
            /\ UNCHANGED << exitCode, stdout, stderr >>
    /\ UNCHANGED << segVars, callerVars, stdin, modelName, request, precision, language, audio_data,
                    loaderVars, transcribeVars >>

\* main, lines 97-100: audio_file.read_bytes(); bytes is None when it raises.
ReadAudio(bytes, text) ==
    /\ wpc = "read"
    /\ IF IsNone(bytes)
         THEN _fail(14, << "Failed to read audio file: ", text >>, << >>)
              /\ UNCHANGED audio_data
       ELSE /\ audio_data' = Val(bytes)
            /\ wpc' = "construct"
            /\ UNCHANGED << exitCode, stdout, stderr >>
    /\ UNCHANGED << segVars, callerVars, stdin, modelName, request, precision, language,
                    loaderVars, transcribeVars >>

\* ModelLoader.__init__ (lines 78-93); gpu is get_gpu_info()["available"].
ModelLoader(config, gpu) ==
    [config |-> [config EXCEPT !.device = IF gpu THEN @ ELSE "cpu"],
     model |-> None, processor |-> None, _loaded |-> FALSE, _backend |-> "unknown",
     _actual_precision |-> config.precision, _last_native_error |-> None]

\* _build_config (lines 62-68) over config.model_config.
_build_config(prec) ==
    [model_name |-> modelName, precision |-> prec, device |-> "cuda"]

\* main, lines 104-107: the loader is built and, not being loaded, asked to
\* load.
ConstructLoader(gpu) ==
    LET self == ModelLoader(_build_config(precision), gpu)
    IN  /\ wpc = "construct"
        /\ loader' = Some(self)
        /\ calls' = Append(calls, "ModelLoader")
        /\ stderr' = stderr
             \o << Log("INFO", << "ModelLoader initialized with config: " >>) >>
             \o (IF gpu THEN << >>
                 ELSE << Log("WARNING", << "No GPU detected; forcing CPU mode (inference will be slow)" >>) >>)
        /\ wpc' = IF self._loaded THEN "transcribe" ELSE "loading"
        /\ lpc' = IF self._loaded THEN lpc ELSE "call"
        /\ UNCHANGED << segVars, callerVars, stdin, modelName, request, precision, language, audio_data,
                        exitCode, stdout, frame, raised, transcribeVars >>

(***************************************************************************)
(* ModelLoader.load_model (model_loader.py, lines 507-548), one action per *)
(* call into the environment.                                              *)
(***************************************************************************)
Self == Val(loader)

FallbackLoaders ==
    << "AutoModelForCausalLM", "AutoModelForSpeechSeq2Seq", "AutoModel" >>
FallbackBackends ==
    << "transformers-AutoModelForCausalLM", "transformers-AutoModelForSpeechSeq2Seq",
       "transformers-AutoModel" >>

\* The except block of load_model (lines 543-548) for an exception of text
\* message raised with the loader in state self, after the lines logged.
LoadRaises(self, message, logged) ==
    /\ loader' = Some([self EXCEPT !.model = None, !.processor = None, !._loaded = FALSE])
    /\ raised' = Some(message)
    /\ lpc' = "raised"
    /\ stderr' = stderr \o logged
                   \o << Log("ERROR", << "Failed to load model: " >> \o message) >>

\* Lines 508-518 and the test of line 520.
load_model(quantization) ==
    /\ lpc = "call"
    /\ calls' = Append(calls, "load_model")
    /\ IF Self._loaded
         THEN /\ lpc' = "returned"
              /\ stderr' = Append(stderr, Log("INFO", << "Model already loaded" >>))
              /\ UNCHANGED << loader, frame >>
       ELSE LET built == _build_model_load_kwargs(Self.config.precision, Self.config.device,
                                                  quantization)
            IN  /\ loader' = Some([Self EXCEPT !._actual_precision = built.actual])
                /\ frame' = [EmptyFrame EXCEPT !.model_kwargs = built.kwargs]
                /\ lpc' = IF _is_vibevoice_asr_model(Self.config.model_name)
                            THEN "runtime_check" ELSE "native"
                /\ stderr' = stderr \o
                     << Log("INFO", << "Loading model: ", Self.config.model_name >>),
                        Log("INFO", << "Requested precision=", Self.config.precision,
                                       " device=", Self.config.device >>) >>
    /\ UNCHANGED << segVars, callerVars, wpc, stdin, modelName, request, precision, language, audio_data,
                    exitCode, stdout, raised, transcribeVars >>

\* Lines 520-523: the runtime check of the family.
RuntimeCheck(package, modules, deps) ==
    LET status == _vibevoice_runtime_status(package, modules, deps)
    IN  /\ lpc = "runtime_check"
        /\ calls' = Append(calls, "_vibevoice_runtime_status")
        /\ IF ~status.ok
             THEN /\ LoadRaises(Self, _format_vibevoice_runtime_error(Self, status.details), << >>)
                  /\ UNCHANGED frame
           ELSE /\ frame' = [frame EXCEPT !.runtime_details = status.details]
                /\ lpc' = "native"
                /\ UNCHANGED << loader, raised, stderr >>
        /\ UNCHANGED << segVars, callerVars, wpc, stdin, modelName, request, precision, language,
                        audio_data, exitCode, stdout, transcribeVars >>

\* ModelLoader._parse_bool_env (lines 122-130): Some(TRUE), Some(FALSE), or
\* None for an unset or unknown value.
_parse_bool_env(value) ==
    IF IsNone(value) THEN None
    ELSE IF Lower(Strip(Val(value))) \in { "1", "true", "yes", "on" } THEN Some(TRUE)
    ELSE IF Lower(Strip(Val(value))) \in { "0", "false", "no", "off" } THEN Some(FALSE)
    ELSE None

\* ModelLoader._is_local_source_discovery_enabled (lines 132-148).
_is_local_source_discovery_enabled(env) ==
    IF Strip(env.VIBEVOICE_SOURCE_DIR) # "" THEN TRUE
    ELSE IF ~IsNone(_parse_bool_env(env.VIBEVOICE_ALLOW_LOCAL_SOURCE))
      THEN Val(_parse_bool_env(env.VIBEVOICE_ALLOW_LOCAL_SOURCE))
    ELSE IF ~IsNone(_parse_bool_env(env.TRISPR_DEV_BUILD))
      THEN Val(_parse_bool_env(env.TRISPR_DEV_BUILD))
    ELSE FALSE

\* ModelLoader._candidate_local_vibevoice_dirs (lines 105-119): the explicit
\* source directory, VibeVoice beside the third and the fourth parent of the
\* sidecar directory, VibeVoice in the working directory.
_candidate_local_vibevoice_dirs(env) ==
    (IF Strip(env.VIBEVOICE_SOURCE_DIR) # "" THEN << Strip(env.VIBEVOICE_SOURCE_DIR) >>
     ELSE << >>)
    \o << "repo/VibeVoice", "apps/VibeVoice", "cwd/VibeVoice" >>

\* The candidates the loop of lines 159-168 stops at: those that are not "."
\* and hold vibevoice/__init__.py.
LocalSources(env) ==
    SelectSeq(_candidate_local_vibevoice_dirs(env),
              LAMBDA candidate : candidate # "." /\ candidate \in env.packaged)

\* ModelLoader._inject_local_vibevoice_path (lines 150-168): sys.path after it.
_inject_local_vibevoice_path(env) ==
    IF ~_is_local_source_discovery_enabled(env) THEN env.sys_path
    ELSE IF Len(LocalSources(env)) = 0 THEN env.sys_path
    ELSE IF \E i \in 1..Len(env.sys_path) : env.sys_path[i] = LocalSources(env)[1]
      THEN env.sys_path
    ELSE << LocalSources(env)[1] >> \o env.sys_path

\* The lines _inject_local_vibevoice_path logs.
InjectLog(env) ==
    IF ~_is_local_source_discovery_enabled(env)
      THEN << Log("INFO", << "Local VibeVoice source auto-discovery is disabled. ",
                             "Set ", "VIBEVOICE_ALLOW_LOCAL_SOURCE",
                             "=1 or VIBEVOICE_SOURCE_DIR to enable override." >>) >>
    ELSE IF _inject_local_vibevoice_path(env) # env.sys_path
      THEN << Log("INFO", << "Added local VibeVoice source to PYTHONPATH: ",
                             LocalSources(env)[1] >>) >>
    ELSE << >>

\* importlib finds the runtime modules of the family: a current package is
\* installed, or an entry of sys.path is a source directory holding it.
Importable(env) ==
    \/ env.installed = "present"
    \/ \E i \in 1..Len(env.sys_path) : env.sys_path[i] \in env.packaged

\* Mutant of NativeImport: a failed import leads to the fallback loader for
\* every model.
NativeImport_FallsBack(error) ==
    /\ lpc = "native"
    /\ calls' = Append(calls, "_load_vibevoice_native")
    /\ IF IsNone(error)
         THEN /\ loader' = Some([Self EXCEPT !._last_native_error = None])
              /\ lpc' = "native_processor"
              /\ stderr' = stderr \o InjectLog(localEnv)
              /\ UNCHANGED raised
       ELSE LET self == [Self EXCEPT !._last_native_error =
                           Some(<< "native import failed: ", Val(error) >>)]
                warned == InjectLog(localEnv)
                          \o << Log("WARNING", << "Native VibeVoice imports unavailable: ",
                                                  Val(error) >>) >>
            IN  IF FALSE
                  THEN LoadRaises(self,
                         _format_vibevoice_runtime_error(self, frame.runtime_details), warned)
                ELSE /\ loader' = Some(self)
                     /\ lpc' = "fallback"
                     /\ stderr' = stderr \o warned
                     /\ UNCHANGED raised
    /\ localEnv' = [localEnv EXCEPT !.sys_path = _inject_local_vibevoice_path(localEnv)]
    /\ UNCHANGED << segFnVars, callerVars, wpc, stdin, modelName, request, precision, language,
                    audio_data, exitCode, stdout, frame, transcribeVars >>

\* _load_vibevoice_native, lines 373-385, and lines 526-528 when it returns
\* False: the local source is put on sys.path (line 375), then the native
\* modules are imported; error is None when they import.
NativeImport(error) ==
    /\ lpc = "native"
    /\ calls' = Append(calls, "_load_vibevoice_native")
    /\ IF IsNone(error)
         THEN /\ loader' = Some([Self EXCEPT !._last_native_error = None])
              /\ lpc' = "native_processor"
              /\ stderr' = stderr \o InjectLog(localEnv)
              /\ UNCHANGED raised
       ELSE LET self == [Self EXCEPT !._last_native_error =
                           Some(<< "native import failed: ", Val(error) >>)]
                warned == InjectLog(localEnv)
                          \o << Log("WARNING", << "Native VibeVoice imports unavailable: ",
                                                  Val(error) >>) >>
            IN  IF _is_vibevoice_asr_model(self.config.model_name)
                  THEN LoadRaises(self,
                         _format_vibevoice_runtime_error(self, frame.runtime_details), warned)
                ELSE /\ loader' = Some(self)
                     /\ lpc' = "fallback"
                     /\ stderr' = stderr \o warned
                     /\ UNCHANGED raised
    /\ localEnv' = [localEnv EXCEPT !.sys_path = _inject_local_vibevoice_path(localEnv)]
    /\ UNCHANGED << segFnVars, callerVars, wpc, stdin, modelName, request, precision, language,
                    audio_data, exitCode, stdout, frame, transcribeVars >>

\* Lines 387-399: the native processor.
NativeProcessor(error) ==
    /\ lpc = "native_processor"
    /\ calls' = Append(calls, "VibeVoiceASRProcessor.from_pretrained")
    /\ IF IsNone(error)
         THEN /\ frame' = [frame EXCEPT !.processor = Some("VibeVoiceASRProcessor"),
                                        !.native_kwargs =
                                           _sanitize_native_model_kwargs(frame.model_kwargs)]
              /\ lpc' = "native_model"
              /\ UNCHANGED << loader, raised, stderr >>
       ELSE /\ LoadRaises([Self EXCEPT !._last_native_error =
                             Some(<< "processor initialization failed: ", Val(error) >>)],
                          << "Failed to initialize VibeVoice ASR processor: ", Val(error) >>,
                          << >>)
            /\ UNCHANGED frame
    /\ UNCHANGED << segVars, callerVars, wpc, stdin, modelName, request, precision, language, audio_data,
                    exitCode, stdout, transcribeVars >>

\* is_dtype_json_error (lines 409-412)
is_dtype_json_error(error_text) ==
    /\ Contains(LowerText(<< error_text >>), "dtype")
    /\ Contains(LowerText(<< error_text >>), "not json serializable")

\* Lines 401-439: the native model and the test for the one retry.
NativeModel(error) ==
    /\ lpc = "native_model"
    /\ calls' = Append(calls, "VibeVoiceASRForConditionalGeneration.from_pretrained")
    /\ IF IsNone(error)
         THEN /\ frame' = [frame EXCEPT !.model = Some("VibeVoiceASRForConditionalGeneration")]
              /\ lpc' = "native_finish"
              /\ UNCHANGED << loader, raised, stderr >>
       ELSE IF is_dtype_json_error(Val(error)) /\ "torch_dtype" \in DOMAIN frame.native_kwargs
         THEN LET retry_dtype == _torch_dtype_to_serializable(frame.native_kwargs["torch_dtype"])
              IN  /\ frame' = [frame EXCEPT !.retry_kwargs =
                                 ("torch_dtype" :> DtypeStr(retry_dtype)) @@ frame.native_kwargs]
                  /\ lpc' = "native_retry"
                  /\ stderr' = Append(stderr, Log("WARNING",
                       << "Native model load hit non-serializable dtype; retrying with torch_dtype=" >>
                         \o retry_dtype))
                  /\ UNCHANGED << loader, raised >>
       ELSE /\ LoadRaises([Self EXCEPT !._last_native_error =
                             Some(<< "model initialization failed: ", Val(error) >>)],
                          << "Failed to initialize VibeVoice ASR model: ", Val(error) >>,
                          << >>)
            /\ UNCHANGED frame
    /\ UNCHANGED << segVars, callerVars, wpc, stdin, modelName, request, precision, language, audio_data,
                    exitCode, stdout, transcribeVars >>

\* Mutant of NativeRetry: a failed retry is tried again.
NativeRetry_Again(error) ==
    /\ lpc = "native_retry"
    /\ calls' = Append(calls, "VibeVoiceASRForConditionalGeneration.from_pretrained")
    /\ IF IsNone(error)
         THEN /\ frame' = [frame EXCEPT !.model = Some("VibeVoiceASRForConditionalGeneration")]
              /\ lpc' = "native_finish"
              /\ UNCHANGED << loader, raised, stderr >>
       ELSE UNCHANGED << loader, lpc, frame, raised, stderr >>
    /\ UNCHANGED << segVars, callerVars, wpc, stdin, modelName, request, precision, language, audio_data,
                    exitCode, stdout, transcribeVars >>

\* Lines 422-436: the retry with the serializable dtype.
NativeRetry(error) ==
    /\ lpc = "native_retry"
    /\ calls' = Append(calls, "VibeVoiceASRForConditionalGeneration.from_pretrained")
    /\ IF IsNone(error)
         THEN /\ frame' = [frame EXCEPT !.model = Some("VibeVoiceASRForConditionalGeneration")]
              /\ lpc' = "native_finish"
              /\ UNCHANGED << loader, raised, stderr >>
       ELSE /\ LoadRaises([Self EXCEPT !._last_native_error =
                             Some(<< "model initialization failed after dtype retry: ",
                                     Val(error) >>)],
                          << "Failed to initialize VibeVoice ASR model: ", Val(error) >>,
                          << >>)
            /\ UNCHANGED frame
    /\ UNCHANGED << segVars, callerVars, wpc, stdin, modelName, request, precision, language, audio_data,
                    exitCode, stdout, transcribeVars >>

\* Lines 441-448 and 490-495: model.to(device) unless int8, model.eval(), and
\* the fields; error is None when the move succeeds.
NativeFinish(error) ==
    /\ lpc = "native_finish"
    /\ calls' = calls
    /\ IF Self._actual_precision # "int8" /\ ~IsNone(error)
         THEN LoadRaises(Self, << Val(error) >>, << >>)
       ELSE /\ loader' = Some([Self EXCEPT !.processor = frame.processor,
                                           !.model = frame.model,
                                           !._backend = "vibevoice-native"])
            /\ lpc' = "finish"
            /\ UNCHANGED << raised, stderr >>
    /\ UNCHANGED << segVars, callerVars, wpc, stdin, modelName, request, precision, language, audio_data,
                    exitCode, stdout, frame, transcribeVars >>

\* _load_transformers_fallback, lines 454-460: AutoProcessor.
FallbackProcessor(error) ==
    /\ lpc = "fallback"
    /\ calls' = calls \o << "_load_transformers_fallback", "AutoProcessor.from_pretrained" >>
    /\ IF IsNone(error)
         THEN /\ frame' = [frame EXCEPT !.processor = Some("AutoProcessor"), !.k = 1]
              /\ lpc' = "fallback_model"
              /\ UNCHANGED << loader, raised, stderr >>
       ELSE /\ LoadRaises(Self, << Val(error) >>, << >>)
            /\ UNCHANGED frame
    /\ UNCHANGED << segVars, callerVars, wpc, stdin, modelName, request, precision, language, audio_data,
                    exitCode, stdout, transcribeVars >>

\* Mutant of FallbackModel: the backend tag names the first strategy.
FallbackModel_FirstTag(error) ==
    /\ lpc = "fallback_model"
    /\ calls' = Append(calls, FallbackLoaders[frame.k])
    /\ IF IsNone(error)
         THEN /\ frame' = [frame EXCEPT !.model = Some(FallbackLoaders[frame.k])]
              /\ loader' = Some([Self EXCEPT !._backend = FallbackBackends[1]])
              /\ lpc' = "fallback_finish"
              /\ UNCHANGED << raised, stderr >>
       ELSE LET logged == << Log("INFO", << FallbackLoaders[frame.k], " failed: ",
                                            Val(error) >>) >>
            IN  IF frame.k < Len(FallbackLoaders)
                  THEN /\ frame' = [frame EXCEPT !.k = @ + 1]
                       /\ stderr' = stderr \o logged
                       /\ UNCHANGED << loader, lpc, raised >>
                ELSE /\ LoadRaises(Self,
                          << "Failed to load model with all fallback loaders", ": ",
                             Val(error) >>, logged)
                     /\ UNCHANGED frame
    /\ UNCHANGED << segVars, callerVars, wpc, stdin, modelName, request, precision, language, audio_data,
                    exitCode, stdout, transcribeVars >>

\* Lines 470-488: loader number frame.k of model_loaders is tried.
FallbackModel(error) ==
    /\ lpc = "fallback_model"
    /\ calls' = Append(calls, FallbackLoaders[frame.k])
    /\ IF IsNone(error)
         THEN /\ frame' = [frame EXCEPT !.model = Some(FallbackLoaders[frame.k])]
              /\ loader' = Some([Self EXCEPT !._backend = FallbackBackends[frame.k]])
              /\ lpc' = "fallback_finish"
              /\ UNCHANGED << raised, stderr >>
       ELSE LET logged == << Log("INFO", << FallbackLoaders[frame.k], " failed: ",
                                            Val(error) >>) >>
            IN  IF frame.k < Len(FallbackLoaders)
                  THEN /\ frame' = [frame EXCEPT !.k = @ + 1]
                       /\ stderr' = stderr \o logged
                       /\ UNCHANGED << loader, lpc, raised >>
                ELSE /\ LoadRaises(Self,
                          << "Failed to load model with all fallback loaders", ": ",
                             Val(error) >>, logged)
                     /\ UNCHANGED frame
    /\ UNCHANGED << segVars, callerVars, wpc, stdin, modelName, request, precision, language, audio_data,
                    exitCode, stdout, transcribeVars >>

\* Lines 490-495.
FallbackFinish(error) ==
    /\ lpc = "fallback_finish"
    /\ calls' = calls
    /\ IF Self._actual_precision # "int8" /\ ~IsNone(error)
         THEN LoadRaises(Self, << Val(error) >>, << >>)
       ELSE /\ loader' = Some([Self EXCEPT !.processor = frame.processor,
                                           !.model = frame.model])
            /\ lpc' = "finish"
            /\ UNCHANGED << raised, stderr >>
    /\ UNCHANGED << segVars, callerVars, wpc, stdin, modelName, request, precision, language, audio_data,
                    exitCode, stdout, frame, transcribeVars >>

\* Lines 531-542.
LoadFinish ==
    /\ lpc = "finish"
    /\ IF IsNone(Self.model) \/ IsNone(Self.processor)
         THEN LoadRaises(Self, << "Model or processor failed to initialize" >>, << >>)
       ELSE /\ loader' = Some([Self EXCEPT !._loaded = TRUE])
            /\ lpc' = "returned"
            /\ stderr' = Append(stderr, Log("INFO",
                 << "Model loaded successfully via ", Self._backend,
                    " (actual precision: ", Self._actual_precision >>))
            /\ UNCHANGED raised
    /\ UNCHANGED << segVars, callerVars, wpc, stdin, modelName, request, precision, language, audio_data,
                    exitCode, stdout, frame, calls, transcribeVars >>

(***************************************************************************)
(* ModelLoader.transcribe (lines 626-701) as the worker calls it.          *)
(***************************************************************************)
\* The exception leaves transcribe.
TranscribeRaises(message) ==
    /\ raised' = Some(message)
    /\ wpc' = "raised"

\* Lines 631-644: the guards and load_audio_from_bytes; decoded is None when
\* no decoder reads the bytes, else the duration of the audio decoded.
TranscribeDecode(decoded, text) ==
    /\ wpc = "loading"
    /\ lpc = "returned"
    /\ Self._loaded
    /\ calls' = Append(calls, "transcribe")
    /\ stderr' = IF IsNone(Self.model) \/ IsNone(Self.processor) THEN stderr
                  ELSE Append(stderr, Log("INFO", << "Transcribing ", audio_data,
                                                     " bytes of audio" >>))
    /\ IF IsNone(Self.model) \/ IsNone(Self.processor)
         THEN TranscribeRaises(<< "Model or processor is not available" >>)
              /\ UNCHANGED duration
       ELSE IF audio_data = ""
         THEN TranscribeRaises(<< "Audio payload is empty" >>) /\ UNCHANGED duration
       ELSE IF IsNone(decoded)
         THEN TranscribeRaises(<< "Failed to decode audio bytes (", "soundfile: ", text,
                                  "; ", "pydub: ", text, ")" >>)
              /\ UNCHANGED duration
       ELSE IF Val(decoded) = RZero
         THEN TranscribeRaises(<< "Decoded audio is empty" >>) /\ UNCHANGED duration
       ELSE /\ duration' = Val(decoded)
            /\ wpc' = "inference"
            /\ UNCHANGED raised
    /\ UNCHANGED << segVars, callerVars, stdin, modelName, request, precision, language, audio_data,
                    exitCode, stdout, loader, lpc, frame, inference_result, result >>

\* Lines 646-657: preprocess_audio and run_inference; output is None when one
\* of them raises.
TranscribeInference(output, text) ==
    /\ wpc = "inference"
    /\ IF IsNone(output)
         THEN TranscribeRaises(<< text >>) /\ UNCHANGED inference_result
       ELSE /\ inference_result' =
                 InferenceResult(Val(output).generated_text, Val(output).raw_segments)
            /\ wpc' = "segments"
            /\ UNCHANGED raised
    /\ UNCHANGED << segVars, callerVars, stdin, modelName, request, precision, language, audio_data,
                    exitCode, stdout, stderr, loader, lpc, frame, calls, duration, result >>

\* Lines 659-701.
TranscribeFinish(diarization_fallback, pyannote) ==
    /\ wpc = "segments"
    /\ result' = Some(TranscribeResult(Self,
                        TranscribeSegments(inference_result, duration,
                                           diarization_fallback, pyannote),
                        duration, language))
    /\ wpc' = "respond"
    /\ UNCHANGED << segVars, callerVars, stdin, modelName, request, precision, language, audio_data,
                    exitCode, stdout, stderr, loaderVars, duration, inference_result >>

(***************************************************************************)
(* worker_once.main, lines 109-131.                                        *)
(***************************************************************************)
\* Mutant of WorkerExcept: the other failures exit with the reserved code 12.
WorkerExcept_Reserved ==
    /\ wpc \in { "loading", "raised" }
    /\ ~IsNone(raised)
    /\ IF Contains(Val(raised), "initialize VibeVoice ASR model")
          \/ Contains(Val(raised), "Failed to load model")
         THEN _fail(11, << "Failed to initialize VibeVoice ASR model: " >> \o Val(raised), << >>)
       ELSE _fail(12, << "Worker transcription failed: " >> \o Val(raised), << >>)
    /\ UNCHANGED << segVars, callerVars, stdin, modelName, request, precision, language, audio_data,
                    loaderVars, transcribeVars >>

\* The except clause (lines 109-113).
WorkerExcept ==
    /\ wpc \in { "loading", "raised" }
    /\ ~IsNone(raised)
    /\ IF Contains(Val(raised), "initialize VibeVoice ASR model")
          \/ Contains(Val(raised), "Failed to load model")
         THEN _fail(11, << "Failed to initialize VibeVoice ASR model: " >> \o Val(raised), << >>)
       ELSE _fail(20, << "Worker transcription failed: " >> \o Val(raised), << >>)
    /\ UNCHANGED << segVars, callerVars, stdin, modelName, request, precision, language, audio_data,
                    loaderVars, transcribeVars >>

\* dict.setdefault
SetDefault(d, key, value) == IF key \in DOMAIN d THEN d ELSE d @@ (key :> value)

\* Lines 115-131: the payload goes to stdout and main returns.
WorkerRespond ==
    LET metadata ==
            SetDefault(SetDefault(SetDefault(SetDefault(Val(result).metadata,
              "processing_time", "elapsed"), "language", language),
              "model_precision", precision),
              "num_speakers",
              Cardinality({ Val(result).segments[i].speaker :
                              i \in 1..Len(Val(result).segments) }))
    IN  /\ wpc = "respond"
        /\ stdout' = Append(stdout,
                       [status |-> "success",
                        segments |-> Val(result).segments,
                        metadata |-> metadata,
                        diagnostics |-> [backend |-> "vibevoice", worker |-> "worker_once"]])
        /\ exitCode' = Some(0)
        /\ wpc' = "exited"
        /\ UNCHANGED << segVars, callerVars, stdin, modelName, request, precision, language, audio_data,
                        stderr, loaderVars, transcribeVars >>

(***************************************************************************)
(* What the environment of the worker can answer.                          *)
(***************************************************************************)
Errors == { None } \cup { Some(t) : t \in ExceptionTexts }

\* read_bytes(): raises, no bytes, some bytes.
ReadOutcomes == { None, Some(""), Some("RIFF") }

\* Decoding: fails, an empty signal, one second, ten seconds.
DecodeOutcomes == { None, Some(RInt(0)), Some(RInt(1)), Some(RInt(10)) }

SegA == ("text" :> Txt(<< "hi" >>)) @@ ("Start" :> Num(RInt(0))) @@ ("end" :> Num(RInt(2)))
SegB == ("text" :> Txt(<< "yo" >>)) @@ ("start" :> Num(RInt(20))) @@ ("end" :> Num(RInt(20)))
SegC == ("Content" :> Txt(<< "a", "b", "c", "d" >>)) @@ ("Speaker" :> Lbl("Alice"))

\* The text generated and the raw segments parsed from it: nothing, text
\* without segments, one segment, two of the default speaker, two speakers.
InferenceOutputs ==
    { [generated_text |-> << >>, raw_segments |-> << >>],
      [generated_text |-> << "hello" >>, raw_segments |-> << >>],
      [generated_text |-> << "hi" >>, raw_segments |-> << SegA >>],
      [generated_text |-> << "hi", "yo" >>, raw_segments |-> << SegA, SegB >>],
      [generated_text |-> << "hi", "a" >>, raw_segments |-> << SegA, SegC >>] }

NextWorker ==
    \/ LoadRequest
    \/ \E exists \in BOOLEAN : ValidateRequest(exists)
    \/ \E imported \in BOOLEAN : ImportRuntime(imported, "No module named 'torch'")
    \/ \E bytes \in ReadOutcomes : ReadAudio(bytes, "Permission denied")
    \/ \E gpu \in BOOLEAN : ConstructLoader(gpu)
    \/ \E quantization \in BOOLEAN : load_model(quantization)
    \/ \E package \in { "absent", "unreadable", "present" },
          modules \in { None, Some("No module named 'vibevoice.modular'") },
          deps \in BOOLEAN : RuntimeCheck(package, modules, deps)
    \/ \E error \in Errors : NativeImport(error)
    \/ \E error \in Errors : NativeProcessor(error)
    \/ \E error \in Errors : NativeModel(error)
    \/ \E error \in Errors : NativeRetry(error)
    \/ \E error \in Errors : NativeFinish(error)
    \/ \E error \in Errors : FallbackProcessor(error)
    \/ \E error \in Errors : FallbackModel(error)
    \/ \E error \in Errors : FallbackFinish(error)
    \/ LoadFinish
    \/ \E decoded \in DecodeOutcomes : TranscribeDecode(decoded, "Format not recognised")
    \/ \E output \in { None } \cup { Some(o) : o \in InferenceOutputs } :
          TranscribeInference(output, "CUDA out of memory")
    \/ \E diarization_fallback \in { "1", "0" }, pyannote \in Pyannotes :
          TranscribeFinish(diarization_fallback, pyannote)
    \/ WorkerExcept
    \/ WorkerRespond

Spec == InitWorker /\ [][NextWorker]_vars

(***************************************************************************)
(* A ModelLoader handle and its caller: load_model, unload_model,          *)
(* reload_model and transcribe, called in any order.  Here calls and       *)
(* stderr hold the calls and the log lines of the method in progress (or   *)
(* of the last one ended), and hpc names that method.                      *)
(***************************************************************************)
\* config.model_config: the defaults of ModelConfig.
model_config == [model_name |-> modelName, precision |-> "fp16", device |-> "cuda"]

\* What no method of the handle touches.
restVars == << segVars, wpc, stdin, modelName, request, precision, language, audio_data,
               exitCode, stdout >>

\* A handle as main.py's startup builds it, and a caller about to use it.
HandleFresh ==
    /\ SegOff
    /\ wpc = "off"
    /\ stdin = [kind |-> "empty"]
    /\ modelName \in ModelNames
    /\ request = NoFields
    /\ precision = ""
    /\ language = "auto"
    /\ audio_data = "RIFF"
    /\ exitCode = None
    /\ stdout = << >>
    /\ stderr = << >>
    /\ \E gpu \in BOOLEAN : loader = Some(ModelLoader(model_config, gpu))
    /\ lpc = "idle"
    /\ frame = EmptyFrame
    /\ raised = None
    /\ calls = << >>
    /\ duration = RZero
    /\ inference_result = [raw_text |-> << >>, segments |-> << >>]
    /\ result = None
    /\ hpc = "idle"
    /\ outcome = None

InitHandle ==
    /\ HandleFresh
    /\ LocalOff
    /\ task = << >>

\* The method op ended, raising exc (None when it returned).
Ended(op, exc) == Some([op |-> op, raised |-> exc])

\* Mutant of unload_model: the processor is kept.
unload_model_KeepsProcessor(self) ==
    IF ~self._loaded THEN self
    ELSE [self EXCEPT !.model = None, !._loaded = FALSE, !._backend = "unknown"]

\* ModelLoader.unload_model (lines 550-572) on the fields of self.  gc and
\* torch.cuda.empty_cache() touch no field, and what they raise is swallowed.
unload_model(self) ==
    IF ~self._loaded THEN self
    ELSE [self EXCEPT !.model = None, !.processor = None, !._loaded = FALSE,
                      !._backend = "unknown"]

\* The lines unload_model logs.
UnloadLog(self) ==
    IF ~self._loaded THEN << >>
    ELSE << Log("INFO", << "Unloading model..." >>),
            Log("INFO", << "Model unloaded successfully" >>) >>

\* A caller enters load_model().
InvokeLoadModel ==
    /\ hpc' = "load_model"
    /\ lpc' = "call"
    /\ calls' = << >>
    /\ stderr' = << >>
    /\ frame' = EmptyFrame
    /\ raised' = None
    /\ UNCHANGED << loader, outcome, transcribeVars >>

\* A caller runs unload_model().
InvokeUnloadModel ==
    /\ loader' = Some(unload_model(Self))
    /\ calls' = << "unload_model" >>
    /\ stderr' = UnloadLog(Self)
    /\ outcome' = Ended("unload_model", None)
    /\ UNCHANGED << hpc, lpc, frame, raised, transcribeVars >>

\* Mutant of InvokeReloadModel: the configured precision is not replaced.
InvokeReloadModel_KeepsPrecision(p) ==
    /\ loader' = Some(unload_model(Self))
    /\ hpc' = "reload_model"
    /\ lpc' = "call"
    /\ calls' = << "reload_model", "unload_model" >>
    /\ stderr' = << Log("INFO", << "Reloading model with precision: ", p >>) >>
                   \o UnloadLog(Self)
    /\ frame' = EmptyFrame
    /\ raised' = None
    /\ UNCHANGED << outcome, transcribeVars >>

\* A caller enters reload_model(p): lines 575-577 and the call of line 578.
InvokeReloadModel(p) ==
    /\ loader' = Some([unload_model(Self) EXCEPT !.config.precision = p])
    /\ hpc' = "reload_model"
    /\ lpc' = "call"
    /\ calls' = << "reload_model", "unload_model" >>
    /\ stderr' = << Log("INFO", << "Reloading model with precision: ", p >>) >>
                   \o UnloadLog(Self)
    /\ frame' = EmptyFrame
    /\ raised' = None
    /\ UNCHANGED << outcome, transcribeVars >>

\* Mutant of InvokeTranscribe: the handle is used as it is, without the lazy
\* load of lines 631-633.
InvokeTranscribe_NoLazyLoad ==
    /\ calls' = << "transcribe" >>
    /\ result' = None
    /\ duration' = RZero
    /\ inference_result' = [raw_text |-> << >>, segments |-> << >>]
    /\ frame' = EmptyFrame
    /\ raised' = None
    /\ hpc' = "transcribe_run"
    /\ lpc' = "idle"
    /\ stderr' = << >>
    /\ UNCHANGED << loader, outcome >>

\* A caller enters transcribe(): lines 631-633.
InvokeTranscribe ==
    /\ calls' = << "transcribe" >>
    /\ result' = None
    /\ duration' = RZero
    /\ inference_result' = [raw_text |-> << >>, segments |-> << >>]
    /\ frame' = EmptyFrame
    /\ raised' = None
    /\ IF ~Self._loaded
         THEN /\ hpc' = "transcribe_load"
              /\ lpc' = "call"
              /\ stderr' = << Log("INFO", << "Model not loaded yet; loading lazily" >>) >>
       ELSE /\ hpc' = "transcribe_run"
            /\ lpc' = "idle"
            /\ stderr' = << >>
    /\ UNCHANGED << loader, outcome >>

CallLoadModel ==
    /\ hpc = "idle"
    /\ InvokeLoadModel
    /\ UNCHANGED << restVars, task >>

CallUnloadModel ==
    /\ hpc = "idle"
    /\ InvokeUnloadModel
    /\ UNCHANGED << restVars, task >>

CallReloadModel(p) ==
    /\ hpc = "idle"
    /\ InvokeReloadModel(p)
    /\ UNCHANGED << restVars, task >>

CallTranscribe ==
    /\ hpc = "idle"
    /\ InvokeTranscribe
    /\ UNCHANGED << restVars, task >>

\* Mutant of ReturnLoadModel: the method swallows the exception of a failed
\* load and returns normally.
ReturnLoadModel_Swallows ==
    /\ hpc \in { "load_model", "reload_model" }
    /\ lpc \in { "returned", "raised" }
    /\ outcome' = Ended(hpc, None)
    /\ hpc' = "idle"
    /\ lpc' = "idle"
    /\ raised' = None
    /\ frame' = EmptyFrame
    /\ UNCHANGED << restVars, task, stderr, loader, calls, transcribeVars >>

\* load_model returns or raises to the caller of load_model or reload_model.
ReturnLoadModel ==
    /\ hpc \in { "load_model", "reload_model" }
    /\ lpc \in { "returned", "raised" }
    /\ outcome' = Ended(hpc, raised)
    /\ hpc' = "idle"
    /\ lpc' = "idle"
    /\ raised' = None
    /\ frame' = EmptyFrame
    /\ UNCHANGED << restVars, task, stderr, loader, calls, transcribeVars >>

\* Line 633: the lazy load_model returns into transcribe or raises through it.
TranscribeLoaded ==
    /\ hpc = "transcribe_load"
    /\ lpc \in { "returned", "raised" }
    /\ IF lpc = "raised"
         THEN /\ outcome' = Ended("transcribe", raised)
              /\ hpc' = "idle"
       ELSE /\ hpc' = "transcribe_run"
            /\ UNCHANGED outcome
    /\ lpc' = "idle"
    /\ raised' = None
    /\ frame' = EmptyFrame
    /\ UNCHANGED << restVars, task, stderr, loader, calls, transcribeVars >>

\* Lines 635-657: why transcribe raises, or None.
TranscribeFailure(self, bytes, decoded, output) ==
    IF IsNone(self.model) \/ IsNone(self.processor)
      THEN Some(<< "Model or processor is not available" >>)
    ELSE IF bytes = "" THEN Some(<< "Audio payload is empty" >>)
    ELSE IF IsNone(decoded)
      THEN Some(<< "Failed to decode audio bytes (", "soundfile: ", "Format not recognised",
                   "; ", "pydub: ", "Format not recognised", ")" >>)
    ELSE IF Val(decoded) = RZero THEN Some(<< "Decoded audio is empty" >>)
    ELSE IF IsNone(output) THEN Some(<< "CUDA out of memory" >>)
    ELSE None

\* Lines 635-683: the functions of inference.py transcribe calls, in order,
\* up to the one that raises.  load_audio_from_bytes raises on an empty
\* payload, on bytes no decoder reads and on an empty signal (inference.py,
\* lines 70-107); output is None when run_inference raises.
TranscribeCalls(self, bytes, decoded, output, diarization_fallback) ==
    IF IsNone(self.model) \/ IsNone(self.processor) THEN << >>
    ELSE IF bytes = "" \/ IsNone(decoded) THEN << "load_audio_from_bytes" >>
    ELSE IF Val(decoded) = RZero THEN << "load_audio_from_bytes" >>
    ELSE IF IsNone(output)
      THEN << "load_audio_from_bytes", "preprocess_audio", "run_inference" >>
    ELSE << "load_audio_from_bytes", "preprocess_audio", "run_inference" >>
         \o (IF _segments_need_external_diarization(
                  PreDiarization(Val(output).generated_text, Val(output).raw_segments,
                                 Val(decoded)),
                  diarization_fallback)
               THEN << "run_speaker_diarization" >>
             ELSE << >>)

\* Lines 635-701 for a handle that is loaded.
TranscribeRun(decoded, output, diarization_fallback, pyannote) ==
    /\ hpc = "transcribe_run"
    /\ hpc' = "idle"
    /\ outcome' = Ended("transcribe", TranscribeFailure(Self, audio_data, decoded, output))
    /\ IF ~IsNone(TranscribeFailure(Self, audio_data, decoded, output))
         THEN UNCHANGED transcribeVars
       ELSE /\ duration' = Val(decoded)
            /\ inference_result' =
                 InferenceResult(Val(output).generated_text, Val(output).raw_segments)
            /\ result' = Some(TranscribeResult(Self,
                                TranscribeSegments(
                                  InferenceResult(Val(output).generated_text,
                                                  Val(output).raw_segments),
                                  Val(decoded), diarization_fallback, pyannote),
                                Val(decoded), language))
    /\ calls' = calls \o TranscribeCalls(Self, audio_data, decoded, output,
                                         diarization_fallback)
    /\ UNCHANGED << restVars, task, stderr, loader, lpc, frame, raised >>

\* What the environment answers to the caller of a handle.
HandleErrors == { None, Some("boom"), Some("Object of type dtype is not JSON serializable") }
HandleDecodes == { None, Some(RInt(1)) }
HandleOutputs ==
    { None,
      Some([generated_text |-> << "hi", "yo" >>, raw_segments |-> << SegA, SegB >>]) }

\* load_model between its call and its end.
LoadSteps ==
    \/ \E quantization \in BOOLEAN : load_model(quantization)
    \/ \E package \in { "absent", "present" },
          modules \in { None, Some("No module named 'vibevoice.modular'") },
          deps \in BOOLEAN : RuntimeCheck(package, modules, deps)
    \/ \E error \in { None, Some("boom") } : NativeImport(error)
    \/ \E error \in { None, Some("boom") } : NativeProcessor(error)
    \/ \E error \in HandleErrors : NativeModel(error)
    \/ \E error \in { None, Some("boom") } : NativeRetry(error)
    \/ \E error \in { None, Some("boom") } : NativeFinish(error)
    \/ \E error \in { None, Some("boom") } : FallbackProcessor(error)
    \/ \E error \in { None, Some("boom") } : FallbackModel(error)
    \/ \E error \in { None, Some("boom") } : FallbackFinish(error)
    \/ LoadFinish

NextHandle ==
    \/ CallLoadModel
    \/ CallUnloadModel
    \/ \E p \in { "fp16", "int8" } : CallReloadModel(p)
    \/ CallTranscribe
    \/ ReturnLoadModel
    \/ TranscribeLoaded
    \/ \E decoded \in HandleDecodes, output \in HandleOutputs :
          TranscribeRun(decoded, output, "1", None)
    \/ LoadSteps

SpecHandle == InitHandle /\ [][NextHandle]_vars

(***************************************************************************)
(* load_model where a local source of the runtime may exist: the           *)
(* environment variables of the discovery, the candidate directories that  *)
(* hold the package and what is installed are drawn; what the metadata     *)
(* lookup and the imports answer follows from them and from sys.path.      *)
(***************************************************************************)
LocalEnvs ==
    [VIBEVOICE_SOURCE_DIR : { "", "  ", ".", "/opt/VibeVoice" },
     VIBEVOICE_ALLOW_LOCAL_SOURCE : { None, Some("1"), Some("0") },
     TRISPR_DEV_BUILD : { None, Some("TRUE") },
     packaged : { {}, { "/opt/VibeVoice" }, { "apps/VibeVoice", "cwd/VibeVoice" } },
     installed : { "absent", "legacy", "present" },
     sys_path : { << "site-packages" >> }]

InitLocal ==
    /\ HandleFresh
    /\ task = << >>
    /\ localEnv \in LocalEnvs

\* importlib_metadata.version("vibevoice") (line 317): the distribution
\* installed; a source directory carries no metadata.
LocalPackage(env) == IF env.installed = "absent" THEN "absent" ELSE "present"

\* What importing the runtime modules raises, or None.
LocalImport(env) ==
    IF Importable(env) THEN None ELSE Some("No module named 'vibevoice.modular'")

NextLocal ==
    \/ CallLoadModel
    \/ ReturnLoadModel
    \/ \E quantization \in BOOLEAN : load_model(quantization)
    \/ \E deps \in BOOLEAN :
          RuntimeCheck(LocalPackage(localEnv), LocalImport(localEnv), deps)
    \/ NativeImport(LocalImport([localEnv EXCEPT
                                   !.sys_path = _inject_local_vibevoice_path(localEnv)]))
    \/ \E error \in { None, Some("boom") } : NativeProcessor(error)
    \/ \E error \in HandleErrors : NativeModel(error)
    \/ \E error \in { None, Some("boom") } : NativeRetry(error)
    \/ \E error \in { None, Some("boom") } : NativeFinish(error)
    \/ \E error \in { None, Some("boom") } : FallbackProcessor(error)
    \/ \E error \in { None, Some("boom") } : FallbackModel(error)
    \/ \E error \in { None, Some("boom") } : FallbackFinish(error)
    \/ LoadFinish

SpecLocal == InitLocal /\ [][NextLocal]_vars

(***************************************************************************)
(* main.py: the long-lived service.  Its handlers are coroutines of one    *)
(* event loop and share the handle model_loader.                           *)
(***************************************************************************)
NumTasks == 2

\* The requests sent: POST /transcribe with a precision (the file exists or
\* not is decided when it is looked up), POST /reload-model with a precision
\* that passed the validation of ReloadRequest.
TaskKinds ==
    { [kind |-> "transcribe", precision |-> p] : p \in { "fp16", "int8", "fp32" } }
    \cup { [kind |-> "reload", precision |-> p] : p \in { "fp16", "int8" } }

InitService ==
    /\ HandleFresh
    /\ LocalOff
    /\ task \in [1..NumTasks ->
                   { [kind |-> k.kind, precision |-> k.precision, pc |-> "pending", status |-> 0]
                       : k \in TaskKinds }]

\* Mutant of LoopFree: the handlers run on the threads of a pool.
LoopFree_ThreadPool == TRUE

\* No coroutine is on the event loop.  A handler (async def, lines 155 and
\* 253) holds the loop from its first line to its return, for its body has no
\* await.
LoopFree == \A r \in DOMAIN task : task[r].pc \in { "pending", "done" }

\* The handler of task r ends with an HTTP status.
Respond(r, status) == task' = [task EXCEPT ![r].pc = "done", ![r].status = status]

\* The handler of task r goes on at pc.
Goto(r, pc) == task' = [task EXCEPT ![r].pc = pc]

\* The loop starts the coroutine of a request received.
Run(r) ==
    /\ task[r].pc = "pending"
    /\ LoopFree
    /\ Goto(r, IF task[r].kind = "transcribe" THEN "validate" ELSE "reload")
    /\ UNCHANGED << restVars, stderr, loaderVars, transcribeVars, hpc, outcome >>

\* transcribe_audio, lines 170-194: the checks and read_bytes(); bytes is
\* None when it raises.
TranscribeValidate(r, exists, bytes) ==
    /\ task[r].pc = "validate"
    /\ IF IsNone(loader) THEN Respond(r, 500) /\ UNCHANGED audio_data
       ELSE IF task[r].precision \notin { "fp16", "int8" }
         THEN Respond(r, 400) /\ UNCHANGED audio_data
       ELSE IF ~exists THEN Respond(r, 400) /\ UNCHANGED audio_data
       ELSE IF IsNone(bytes) THEN Respond(r, 500) /\ UNCHANGED audio_data
       ELSE Goto(r, "switch") /\ audio_data' = Val(bytes)
    /\ UNCHANGED << segVars, wpc, stdin, modelName, request, precision, language,
                    exitCode, stdout, stderr, loaderVars, transcribeVars, hpc, outcome >>

\* Lines 197-199: reload_model when the precision differs.
TranscribeSwitch(r) ==
    /\ task[r].pc = "switch"
    /\ IF Self.config.precision # task[r].precision
         THEN /\ InvokeReloadModel(task[r].precision)
              /\ Goto(r, "switching")
       ELSE /\ Goto(r, "ensure")
            /\ UNCHANGED << stderr, loaderVars, transcribeVars, hpc, outcome >>
    /\ UNCHANGED restVars

\* Lines 201-203: load_model when the handle is not loaded.
TranscribeEnsure(r) ==
    /\ task[r].pc = "ensure"
    /\ IF ~Self._loaded
         THEN /\ InvokeLoadModel
              /\ Goto(r, "loading")
       ELSE /\ Goto(r, "transcribe")
            /\ UNCHANGED << stderr, loaderVars, transcribeVars, hpc, outcome >>
    /\ UNCHANGED restVars

\* Line 206.
TranscribeCall(r) ==
    /\ task[r].pc = "transcribe"
    /\ InvokeTranscribe
    /\ Goto(r, "transcribing")
    /\ UNCHANGED restVars

\* reload_model (the handler), lines 255-260.
ReloadCall(r) ==
    /\ task[r].pc = "reload"
    /\ IF IsNone(loader)
         THEN /\ Respond(r, 500)
              /\ UNCHANGED << stderr, loaderVars, transcribeVars, hpc, outcome >>
       ELSE /\ InvokeReloadModel(task[r].precision)
            /\ Goto(r, "reloading")
    /\ UNCHANGED restVars

\* The method called by the handler of r is in flight on the handle.
InFlight(r) == task[r].pc \in { "switching", "loading", "transcribing", "reloading" }

\* The method called ended: the handler goes on, answers 200 (lines 208-239
\* and 262-265) or answers 500 (lines 247-249 and 267-269).
HandlerResumes(r) ==
    /\ InFlight(r)
    /\ hpc = "idle"
    /\ ~IsNone(outcome)
    /\ IF ~IsNone(Val(outcome).raised) THEN Respond(r, 500)
       ELSE IF task[r].pc = "switching" THEN Goto(r, "ensure")
       ELSE IF task[r].pc = "loading" THEN Goto(r, "transcribe")
       ELSE Respond(r, 200)
    /\ UNCHANGED << restVars, stderr, loaderVars, transcribeVars, hpc, outcome >>

NextService ==
    \/ \E r \in 1..NumTasks : Run(r)
    \/ \E r \in 1..NumTasks, exists \in BOOLEAN, bytes \in { None, Some("RIFF") } :
          TranscribeValidate(r, exists, bytes)
    \/ \E r \in 1..NumTasks : TranscribeSwitch(r)
    \/ \E r \in 1..NumTasks : TranscribeEnsure(r)
    \/ \E r \in 1..NumTasks : TranscribeCall(r)
    \/ \E r \in 1..NumTasks : ReloadCall(r)
    \/ \E r \in 1..NumTasks : HandlerResumes(r)
    \/ ReturnLoadModel
    \/ \E decoded \in HandleDecodes, output \in HandleOutputs :
          TranscribeRun(decoded, output, "1", None)
    \/ LoadSteps

SpecService == InitService /\ [][NextService]_vars

(***************************************************************************)
(* Properties of the segment functions.                                    *)
(***************************************************************************)
PositiveWidth(list) ==
    \A i \in 1..Len(list) : RLt(list[i].start_time, list[i].end_time)

NonOverlapping(list) ==
    \A i \in 1..(Len(list) - 1) : RLe(list[i].end_time, list[i + 1].start_time)

Within(list, d) ==
    \A i \in 1..Len(list) :
        /\ RLe(RZero, list[i].start_time) /\ RLe(list[i].start_time, d)
        /\ RLe(RZero, list[i].end_time) /\ RLe(list[i].end_time, d)

MinWidth(list) ==
    \A i \in 1..Len(list) :
        RLe(Rat(5, 100), RSub(list[i].end_time, list[i].start_time))

C2_FinalizedWithin ==
    (segPc = "finalized" /\ RLt(RZero, Val(segDuration)))
        => Within(segResult, Val(segDuration)) /\ NonOverlapping(segResult)

\* C2 witness: a finalized list of two segments for a positive duration, the
\* raw start of one of them being negative.
C2_Witness ==
    /\ segPc = "finalized"
    /\ RLt(RZero, Val(segDuration))
    /\ Len(segResult) = 2
    /\ \E i \in 1..Len(rawSegments) :
          Get(rawSegments[i], "start_time") = Num(RInt(-1))

\* C3 (as claimed): for duration > 0 every segment returned by
\* _finalize_segments is at least 0.05 s wide, so end_time > start_time.
C3_MinWidthAfterClamp ==
    (segPc = "finalized" /\ RLt(RZero, Val(segDuration)))
        => MinWidth(segResult) /\ PositiveWidth(segResult)

(***************************************************************************)
(* Properties of the loader and of the worker.                             *)
(***************************************************************************)
\* The loader's model id is of the in-house family.
Family == ~IsNone(loader) /\ _is_vibevoice_asr_model(Self.config.model_name)

\* load_model has resolved the precision (line 517 was executed).
PrecisionResolved == ~IsNone(loader) /\ lpc \notin { "idle", "call" }

\* The payloads written by _fail among the lines of a stream.
Payloads(stream) == { i \in 1..Len(stream) : "status" \in DOMAIN stream[i] }

\* C4: the precision load_model records is a total function of the requested
\* precision, of whether the device is cuda and of whether int8 quantization
\* is available: always one of fp16, int8, fp32; int8 without device gives
\* fp32, int8 with device and without quantization gives fp16, int8 with
\* device and quantization gives int8.
C4_PrecisionLadder ==
    [][\A quantization \in BOOLEAN :
         (load_model(quantization) /\ ~Self._loaded) =>
           LET requested == Self.config.precision
               deviceAvailable == Self.config.device = "cuda"
               actual == Val(loader')._actual_precision
           IN  /\ requested \in { "fp16", "int8" }
               /\ actual \in { "fp16", "int8", "fp32" }
               /\ (requested = "int8" /\ ~deviceAvailable) => actual = "fp32"
               /\ (requested = "int8" /\ deviceAvailable /\ ~quantization) => actual = "fp16"
               /\ (requested = "int8" /\ deviceAvailable /\ quantization) => actual = "int8"]_vars

\* int8 was requested on a machine without GPU and fp32 was recorded.
C4_Witness ==
    /\ PrecisionResolved
    /\ Self.config.precision = "int8"
    /\ Self.config.device = "cpu"
    /\ Self._actual_precision = "fp32"

\* C5: when fp16 is requested and the device is not cuda, load_model records
\* fp32 as the actual precision and transcribe reports that value as
\* metadata.model_precision.
C5_Fp16WithoutDeviceIsFp32 ==
    (PrecisionResolved /\ Self.config.precision = "fp16" /\ Self.config.device # "cuda")
        => /\ Self._actual_precision = "fp32"
           /\ ~IsNone(result) => Val(result).metadata.model_precision = "fp32"

\* C6: for a model of the family the fallback loader is never invoked, and a
\* failed runtime check or a failed native import ends load_model in failure.
C6_FamilyNeverFallsBack ==
    [][Family =>
         /\ \A i \in 1..Len(calls') : calls'[i] # "_load_transformers_fallback"
         /\ lpc' # "fallback"
         /\ \A package \in { "absent", "unreadable", "present" },
               modules \in { None, Some("No module named 'vibevoice.modular'") },
               deps \in BOOLEAN :
              (RuntimeCheck(package, modules, deps)
               /\ ~_vibevoice_runtime_status(package, modules, deps).ok)
                 => lpc' = "raised" /\ ~IsNone(raised') /\ ~Val(loader')._loaded
         /\ \A error \in Errors \ { None } :
              NativeImport(error)
                 => lpc' = "raised" /\ ~IsNone(raised') /\ ~Val(loader')._loaded]_vars

\* The native import failed for a model of the family and load_model raised.
C6_Witness ==
    /\ Family
    /\ lpc = "raised"
    /\ calls[Len(calls)] = "_load_vibevoice_native"
    /\ ~IsNone(Self._last_native_error)

\* C7: a valid request for a model of the family whose runtime check or
\* native import fails makes the worker exit with code 11.
C7_FamilyRuntimeFailureExits11 ==
    (/\ wpc = "exited"
     /\ Family
     /\ lpc = "raised"
     /\ calls[Len(calls)] \in { "_vibevoice_runtime_status", "_load_vibevoice_native" })
        => exitCode = Some(11)

\* What of the request fails validation: stdin, then the fields and the file.
StdinInvalid == stdin.kind \in { "empty", "invalid" } \/ ~stdin.isdict
FieldsInvalid(exists) ==
    \/ "audio_path" \notin DOMAIN request
    \/ Strip(request["audio_path"]) = ""
    \/ /\ "precision" \in DOMAIN request
       /\ request["precision"] # ""
       /\ Lower(Strip(request["precision"])) \notin { "fp16", "int8" }
    \/ /\ "analysis_backend" \in DOMAIN request
       /\ request["analysis_backend"] # ""
       /\ Lower(Strip(request["analysis_backend"])) # "vibevoice"
    \/ ~exists

\* C8: a request that fails validation makes the worker exit with code 14
\* with no ModelLoader constructed and load_model never called.
C8_ValidationFailureExits14 ==
    [][/\ (LoadRequest /\ StdinInvalid)
            => exitCode' = Some(14) /\ wpc' = "exited" /\ IsNone(loader') /\ calls' = << >>
       /\ \A exists \in BOOLEAN :
            (ValidateRequest(exists) /\ FieldsInvalid(exists))
              => exitCode' = Some(14) /\ wpc' = "exited" /\ IsNone(loader') /\ calls' = << >>]_vars

\* The request for the backend "whisper" ended with code 14 and no loader.
C8_Witness ==
    /\ wpc = "exited"
    /\ exitCode = Some(14)
    /\ "analysis_backend" \in DOMAIN request
    /\ request["analysis_backend"] = "whisper"
    /\ precision \in { "fp16", "int8" }
    /\ IsNone(loader)
    /\ calls = << >>

\* The exit code against the position of main() and what was called.
ExitCodeSound ==
    /\ (wpc = "exited") <=> ~IsNone(exitCode)
    /\ ~IsNone(exitCode) => Val(exitCode) \in { 0, 10, 11, 14, 20 }
    /\ exitCode = Some(0) => ~IsNone(result) /\ calls[Len(calls)] = "transcribe"

ConstructionFailed ==
    /\ ~IsNone(loader)
    /\ lpc = "raised"
    /\ \/ /\ ~IsNone(Self._last_native_error)
          /\ Val(Self._last_native_error)[1] \in
               { "processor initialization failed: ",
                 "model initialization failed: ",
                 "model initialization failed after dtype retry: " }
       \/ /\ ~IsNone(raised)
          /\ Val(raised)[1] = "Failed to load model with all fallback loaders"

\* C11 (as claimed): when the loader raised during the construction of the
\* processor or of the model (native processor, native model, all fallback
\* loaders failing), the worker exits with code 11 and not with 20.
C11_ConstructionFailureExits11 ==
    (wpc = "exited" /\ ConstructionFailed) => exitCode = Some(11)

(***************************************************************************)
(* Properties of the handle.                                               *)
(***************************************************************************)
\* Neither model nor processor is held and is_loaded() is false.
Cleared(self) == IsNone(self.model) /\ IsNone(self.processor) /\ ~self._loaded

\* is_loaded() is true exactly when model and processor are both held, and
\* neither is held without the other.
Whole(self) ==
    /\ self._loaded <=> (~IsNone(self.model) /\ ~IsNone(self.processor))
    /\ IsNone(self.model) <=> IsNone(self.processor)

\* C12 (as claimed): unload_model, called in any state of the handle (never
\* loaded, loaded, after a failed load, already unloaded), returns without
\* raising and leaves model and processor cleared, is_loaded() false and the
\* backend tag "unknown"; a second unload changes nothing.
C12_UnloadResets ==
    (hpc = "idle" /\ ~IsNone(outcome) /\ Val(outcome).op = "unload_model")
        => /\ IsNone(Val(outcome).raised)
           /\ Cleared(Self)
           /\ Self._backend = "unknown"
           /\ unload_model(Self) = Self

\* C13: whenever load_model fails, on whatever path, the exception reaches the
\* caller (of load_model, of reload_model or of the lazily loading
\* transcribe) and the handle holds neither model nor processor and is not
\* loaded.
C13_FailedLoadLeavesNothing ==
    [][/\ (lpc # "raised" /\ lpc' = "raised")
            => ~IsNone(raised') /\ Cleared(Val(loader'))
       /\ (lpc = "raised" /\ lpc' # "raised")
            => /\ ~IsNone(raised)
               /\ hpc' = "idle"
               /\ ~IsNone(outcome')
               /\ Val(outcome').raised = raised
               /\ Cleared(Val(loader'))]_vars

\* transcribe loaded lazily, every fallback loader failed, and the caller got
\* the exception from a handle that holds nothing.
C13_Witness ==
    /\ hpc = "idle"
    /\ ~IsNone(outcome)
    /\ Val(outcome).op = "transcribe"
    /\ ~IsNone(Val(outcome).raised)
    /\ Val(Val(outcome).raised)[1] = "Failed to load model with all fallback loaders"
    /\ calls[Len(calls)] = "AutoModel"
    /\ Cleared(Self)

\* C14: in every state the caller sees between two methods of the handle,
\* is_loaded() is true exactly when model and processor are both present;
\* no handle with one of the two, or loaded without them, is seen, also
\* after a reload.
C14_NoPartialHandle ==
    hpc = "idle" => Whole(Self)

\* A reload to int8 of a handle that was loaded returned with the handle
\* loaded again.
C14_Witness ==
    /\ hpc = "idle"
    /\ ~IsNone(outcome)
    /\ Val(outcome).op = "reload_model"
    /\ IsNone(Val(outcome).raised)
    /\ calls[3] = "load_model"
    /\ Len(stderr) > 2
    /\ stderr[2] = Log("INFO", << "Unloading model..." >>)
    /\ Self.config.precision = "int8"
    /\ Self._loaded
    /\ ~IsNone(Self.model)

(***************************************************************************)
(* Properties of the service.                                              *)
(***************************************************************************)
\* C15: on the shared handle of the service at most one load, unload or
\* reload is in flight at any time, whatever the interleaving of the
\* /transcribe and /reload-model requests, and no transcribe uses the handle
\* while a reload of it is in progress.
C15_OneInFlight ==
    /\ Cardinality({ r \in DOMAIN task : InFlight(r) }) <= 1
    /\ \A r, q \in DOMAIN task :
         (task[r].pc = "transcribing" /\ task[q].pc \in { "switching", "reloading" }) => r = q
    /\ (hpc # "idle") => \E r \in DOMAIN task : InFlight(r)

\* A reload is in flight for one request while a /transcribe request is
\* received and waits for the loop.
C15_Witness ==
    \E r, q \in DOMAIN task :
        /\ task[r].pc = "reloading"
        /\ hpc = "reload_model"
        /\ lpc = "native_model"
        /\ task[q].kind = "transcribe"
        /\ task[q].pc = "pending"

(***************************************************************************)
(* Properties of the loaders inside load_model.                            *)
(***************************************************************************)
\* The calls of the native model constructor made so far.
NativeModelCalls(history) ==
    { i \in 1..Len(history) :
        history[i] = "VibeVoiceASRForConditionalGeneration.from_pretrained" }

\* C16: within one load_model the native model constructor is called at most
\* twice; the second call is made only after the first raised an error that
\* mentions a dtype that is not JSON serializable while torch_dtype is among
\* the arguments, and it passes torch_dtype as a string; a failed retry ends
\* load_model (no third call, no loop).
C16_OneRetry ==
    [][/\ Cardinality(NativeModelCalls(calls')) <= 2
       /\ (lpc # "native_retry" /\ lpc' = "native_retry")
            => /\ \E error \in Errors \ { None } :
                    /\ NativeModel(error)
                    /\ is_dtype_json_error(Val(error))
               /\ "torch_dtype" \in DOMAIN frame.native_kwargs
               /\ Cardinality(NativeModelCalls(calls')) = 1
               /\ DOMAIN frame'.retry_kwargs = DOMAIN frame.native_kwargs
               /\ frame'.retry_kwargs["torch_dtype"].isstr
               /\ frame'.retry_kwargs["torch_dtype"].text \in { << "float16" >>, << "float32" >> }
               /\ \A k \in DOMAIN frame.native_kwargs \ { "torch_dtype" } :
                    frame'.retry_kwargs[k] = frame.native_kwargs[k]
       /\ lpc = "native_retry"
            => /\ lpc' \in { "native_finish", "raised" }
               /\ Cardinality(NativeModelCalls(calls')) = 2
               /\ \A error \in Errors \ { None } : NativeRetry(error) => lpc' = "raised"]_vars

\* The retry failed too and load_model raised after two calls of the
\* constructor.
C16_Witness ==
    /\ ~IsNone(loader)
    /\ lpc = "raised"
    /\ Cardinality(NativeModelCalls(calls)) = 2
    /\ ~IsNone(Self._last_native_error)
    /\ Val(Self._last_native_error)[1] = "model initialization failed after dtype retry: "

\* C17 (as claimed): for a model outside the family, when the native loader
\* fails (import, processor initialization or model initialization),
\* load_model has tried the fallback loader before it reports the failure.
C17_NativeFailureFallsBack ==
    (/\ ~IsNone(loader)
     /\ ~_is_vibevoice_asr_model(Self.config.model_name)
     /\ ~IsNone(Self._last_native_error)
     /\ lpc = "raised")
        => \E i \in 1..Len(calls) : calls[i] = "_load_transformers_fallback"

\* The strategies of the fallback loader called so far, in the order called.
IsFallbackLoader(name) == \E k \in 1..Len(FallbackLoaders) : FallbackLoaders[k] = name
FallbackCalls(history) == SelectSeq(history, IsFallbackLoader)

\* C18: the fallback loader calls AutoModelForCausalLM,
\* AutoModelForSpeechSeq2Seq, AutoModel in that order; after the first that
\* succeeds it calls no other and the backend tag names that one; when all
\* three fail it raises and neither model nor processor is set.
C18_FallbackOrder ==
    LET tried == FallbackCalls(calls)
    IN  /\ tried = SubSeq(FallbackLoaders, 1, Len(tried))
        /\ (lpc \in { "fallback_finish", "finish", "returned" } /\ Len(tried) > 0)
             => /\ frame.model = Some(tried[Len(tried)])
                /\ Self._backend = FallbackBackends[Len(tried)]
        /\ (lpc = "returned" /\ Len(tried) > 0)
             => /\ Self.model = Some(tried[Len(tried)])
                /\ Self.processor = Some("AutoProcessor")
        /\ (lpc = "raised" /\ Len(tried) = Len(FallbackLoaders)
             /\ Val(raised)[1] = "Failed to load model with all fallback loaders")
             => IsNone(Self.model) /\ IsNone(Self.processor) /\ ~Self._loaded
        /\ (lpc = "raised" /\ Len(tried) > 0 /\ Len(tried) < Len(FallbackLoaders))
             => Val(raised)[1] # "Failed to load model with all fallback loaders"

\* The first two strategies failed, AutoModel gave the model and load_model
\* returned.
C18_Witness ==
    /\ lpc = "returned"
    /\ FallbackCalls(calls) = FallbackLoaders
    /\ Self._backend = "transformers-AutoModel"
    /\ Self._loaded


(***************************************************************************)
(* Properties of the runtime check.                                        *)
(***************************************************************************)
Lists(text, line) == \E i \in 1..Len(text) : text[i] = line

\* C19: when the runtime check of the family refuses the runtime, the
\* diagnostic raised by load_model names every unmet constraint: the package
\* when it is not installed, the required modules when they cannot be
\* imported, and the dependency version when it is not the pinned one.
C19_DiagnosticListsEveryConstraint ==
    [][\A package \in { "absent", "unreadable", "present" },
          modules \in { None, Some("No module named 'vibevoice.modular'") },
          deps \in BOOLEAN :
          (RuntimeCheck(package, modules, deps) /\ lpc' = "raised")
            => /\ package = "absent"
                    => Lists(Val(raised'), "Package 'vibevoice' is not installed.")
               /\ ~IsNone(modules)
                    => Lists(Val(raised'), "Required VibeVoice-ASR modules are unavailable:")
               /\ ~deps
                    => Lists(Val(raised'), "transformers version mismatch: expected ")]_vars


(***************************************************************************)
(* Properties of the time parser.                                          *)
(***************************************************************************)
IsNumeric(value) == value.kind \in { "num", "bigint" }
HasNumber(value) == \E i \in 1..Len(value.parts) : ~IsNone(value.parts[i].r)

\* C20: _safe_parse_time never raises; a numeric value comes back as that
\* number, also when the result is parsed again; a string gives a number or
\* None, and None when no part of it holds a number.
C20_ParseTimeTotal ==
    segPc \in { "parsed", "reparsed" }
      => /\ ~Raised(timeParsed)
         /\ IsNumeric(timeValue) => Len(timeParsed) = 1 /\ Val(timeParsed) = timeValue.v
         /\ timeValue.kind = "str"
              => /\ Len(timeParsed) <= 1
                 /\ ~HasNumber(timeValue) => IsNone(timeParsed)

\* The same for every value but the ints beyond the float range.
ParseTimeTotalOnFloats ==
    (segPc \in { "parsed", "reparsed" } /\ timeValue # BigInt)
      => /\ ~Raised(timeParsed)
         /\ timeValue.kind = "num" => timeParsed = Some(timeValue.v)
         /\ timeValue.kind = "str"
              => /\ Len(timeParsed) <= 1
                 /\ ~HasNumber(timeValue) => IsNone(timeParsed)


(***************************************************************************)
(* Properties of the normalizer's entries.                                 *)
(***************************************************************************)
\* The parse of the first alias whose parse is not None (0 included); None
\* when every alias parses to None.
RECURSIVE FirstPresent(_, _, _)
FirstPresent(seg, keys, i) ==
    IF i > Len(keys) THEN None
    ELSE IF ~IsNone(_safe_parse_time(Get(seg, keys[i])))
      THEN _safe_parse_time(Get(seg, keys[i]))
    ELSE FirstPresent(seg, keys, i + 1)

\* C21: the start (the end) the normalizer takes for an entry is the parse
\* of the first alias, in the order of StartKeys (EndKeys), that is not None,
\* a parsed 0 counting as present; the fallbacks apply only when every alias
\* is None.  For a list of one entry that is not rescaled, the start found
\* that way is the start of the segment returned.
C21_FirstPresentAliasWins ==
    segPc = "normalized"
      => /\ \A i \in 1..Len(rawSegments) :
              /\ EntryTime(rawSegments[i], StartKeys) = FirstPresent(rawSegments[i], StartKeys, 1)
              /\ EntryTime(rawSegments[i], EndKeys) = FirstPresent(rawSegments[i], EndKeys, 1)
         /\ (Len(rawSegments) = 1 /\ Len(segResult) = 1 /\ IsNone(segDuration)
               /\ ~IsNone(FirstPresent(rawSegments[1], StartKeys, 1)))
              => segResult[1].start_time = Val(FirstPresent(rawSegments[1], StartKeys, 1))


(***************************************************************************)
(* Properties of the normalizer's post-pass.                               *)
(***************************************************************************)
\* [{text 'hi', start '0:00', end '0:02'}, {text 'there', start '0:01'}]
ClampScenario ==
    << ("text" :> Txt(<< "hi" >>)) @@ ("start" :> Str(<< PNum(0), PNum(0) >>))
         @@ ("end" :> Str(<< PNum(0), PNum(2) >>)),
       ("text" :> Txt(<< "there" >>)) @@ ("start" :> Str(<< PNum(0), PNum(1) >>)) >>

\* out is sorted, the list of segments before the post-pass, with every start
\* that precedes the end of the segment before it moved up to that end and,
\* where that leaves end <= start, the end put at start + 0.5.
PostPassed(sorted, out) ==
    /\ Len(out) = Len(sorted)
    /\ \A i \in 1..Len(sorted) :
          /\ out[i].start_time =
                IF i > 1 /\ RLt(sorted[i].start_time, out[i - 1].end_time)
                THEN out[i - 1].end_time ELSE sorted[i].start_time
          /\ out[i].end_time =
                IF RLe(sorted[i].end_time, out[i].start_time)
                THEN RAdd(out[i].start_time, Rat(1, 2)) ELSE sorted[i].end_time
          /\ out[i].text = sorted[i].text

\* C22: in the list the normalizer returns (no rescale), a segment that
\* started before the end of the segment before it starts at that end, and a
\* segment collapsed by this ends 0.5 after its start; for the two entries of
\* ClampScenario the second segment starts at 2.0 and ends at 2.35 or later.
C22_PostPassClamps ==
    (segPc = "normalized" /\ IsNone(segDuration))
      => /\ PostPassed(SortByStart(NormalizeEntries(rawSegments, 1, << >>), 1, << >>),
                       segResult)
         /\ rawSegments = ClampScenario
              => /\ Len(segResult) = 2
                 /\ segResult[2].start_time = RInt(2)
                 /\ RLe(Rat(235, 100), segResult[2].end_time)

\* The scenario was normalized: the second segment was clamped to 2.0 and,
\* collapsed, got the end 2.5.
C22_Witness ==
    /\ segPc = "normalized"
    /\ IsNone(segDuration)
    /\ rawSegments = ClampScenario
    /\ segResult[2].text = << "there" >>
    /\ segResult[2].start_time = RInt(2)
    /\ segResult[2].end_time = Rat(5, 2)


(***************************************************************************)
(* Properties of the normalizer's rescale.                                 *)
(***************************************************************************)
\* The list before the rescale is longer than a positive fallback duration.
Overlong(list, fb) ==
    /\ ~IsNone(fb)
    /\ RLt(RZero, Val(fb))
    /\ Len(list) > 0
    /\ RLt(Val(fb), MaxEnd(list, 1))

\* out is list with every bound multiplied by fb / maxEnd, a factor below 1;
\* it ends at fb and keeps the order of the segments.
Compressed(list, fb, out) ==
    /\ RLt(RDiv(Val(fb), MaxEnd(list, 1)), RInt(1))
    /\ Len(out) = Len(list)
    /\ \A i \in 1..Len(list) :
          /\ out[i].start_time = RMul(list[i].start_time, RDiv(Val(fb), MaxEnd(list, 1)))
          /\ out[i].end_time = RMul(list[i].end_time, RDiv(Val(fb), MaxEnd(list, 1)))
          /\ out[i].text = list[i].text
          /\ out[i].speaker = list[i].speaker
    /\ MaxEnd(out, 1) = Val(fb)
    /\ \A i, j \in 1..Len(list) :
          /\ RLt(list[i].start_time, list[j].start_time)
               <=> RLt(out[i].start_time, out[j].start_time)
          /\ i < j => RLe(out[i].start_time, out[j].start_time)

Containing(seg, spans) ==
    { k \in 1..Len(spans) :
        RLe(spans[k].start, seg.start_time) /\ RLe(seg.end_time, spans[k].end) }

ContainedGetsSpeaker(aligned, spans) ==
    \A i \in 1..Len(aligned) :
        \A k \in Containing(aligned[i], spans) :
            Containing(aligned[i], spans) = { k } => aligned[i].speaker = spans[k].speaker

\* C24: a transcript segment whose interval lies within exactly one span of
\* the normalized diarization carries that span's speaker after the
\* alignment, whatever the other spans are.
C24_ContainedGetsSpeaker ==
    segPc = "aligned"
      => ContainedGetsSpeaker(segResult, _normalize_speaker_segments(speakerSegments))

\* The same for the transcripts whose other spans overlap the segment by
\* clearly less than its width.
ContainedGetsSpeakerOutsideTolerance ==
    (segPc = "aligned" /\ rawSegments # << LongEntry >>)
      => ContainedGetsSpeaker(segResult, _normalize_speaker_segments(speakerSegments))

AllDefaultSpeaker(aligned) ==
    \A i \in 1..Len(aligned) : aligned[i].speaker = "Speaker_0"

\* The span synthesized for a transcript ending at max_end: one span of the
\* default speaker from 0 that covers [0, max_end].
CoversTranscript(spans, max_end) ==
    /\ Len(spans) = 1
    /\ spans[1].speaker = "Speaker_0"
    /\ spans[1].start = RZero
    /\ RLe(max_end, spans[1].end)
    /\ RLe(Rat(1, 10), max_end) => spans[1].end = max_end

\* C25: when no span is left after the normalization of the diarization (no
\* spans, or every span without a bound or without duration), the aligner
\* works with one default-speaker span covering [0, largest transcript end]
\* and every segment it returns carries the default speaker.
C25_EmptyDiarizationDefaults ==
    (segPc = "aligned" /\ Len(_normalize_speaker_segments(speakerSegments)) = 0
       /\ Len(segResult) > 0)
      => /\ AllDefaultSpeaker(segResult)
         /\ CoversTranscript(_single_speaker_segments(MaxEnd(segResult, 1)),
                             MaxEnd(segResult, 1))
         /\ Len(segResult) = Len(normalize_transcription_segments(rawSegments, None))

\* Two spans were given and both were dropped; the transcript, one of its
\* entries said by Bob, came back with the default speaker.
C25_Witness ==
    /\ segPc = "aligned"
    /\ Len(speakerSegments) = 2
    /\ Len(_normalize_speaker_segments(speakerSegments)) = 0
    /\ Len(segResult) = 2
    /\ \E i \in 1..2 : Get(rawSegments[i], "speaker") = Lbl("Bob")
    /\ AllDefaultSpeaker(segResult)


(***************************************************************************)
(* Properties of the segment pipeline of transcribe.                       *)
(***************************************************************************)
SpeakerLabels(segments) ==
    { Strip(segments[i].speaker) : i \in 1..Len(segments) } \ { "" }

PlaceholderLabels == { "speaker_0", "speaker0", "speaker_00", "unknown" }

\* More than one segment, the flag enabled, and no label or one placeholder.
NeedsDiarization(segments, flag) ==
    /\ Len(segments) > 1
    /\ Lower(flag) \in { "1", "true", "yes" }
    /\ \/ SpeakerLabels(segments) = {}
       \/ \E l \in SpeakerLabels(segments) :
             SpeakerLabels(segments) = { l } /\ Lower(l) \in PlaceholderLabels

SpeakersKept(segments, out) ==
    /\ Len(out) = Len(segments)
    /\ \A i \in 1..Len(segments) : out[i].speaker = segments[i].speaker

SpeakersFrom(spans, out) ==
    \A i \in 1..Len(out) :
        \E k \in 1..Len(spans) : Lbl(out[i].speaker) = spans[k].speaker

\* C26: transcribe calls the external diarization exactly when there is more
\* than one segment, the fallback flag is enabled and the segments carry no
\* speaker label or one placeholder label; then the speakers returned are
\* those of the diarization, and in every other case they are the speakers
\* the segments came with.
C26_DiarizationIffNeeded ==
    segPc \in { "diarized", "kept" }
      => /\ segPc = "diarized"
              <=> NeedsDiarization(
                    PreDiarization(generatedText, rawSegments, Val(segDuration)), envFallback)
         /\ segPc = "diarized" => SpeakersFrom(speakerSegments, segResult)
         /\ segPc = "kept"
              => SpeakersKept(PreDiarization(generatedText, rawSegments, Val(segDuration)),
                              segResult)

\* Two segments labelled SPEAKER_00 with the flag "TRUE" were diarized and
\* came back with the speakers Alice and Bob.
C26_Witness ==
    /\ segPc = "diarized"
    /\ envFallback = "TRUE"
    /\ rawSegments = << LabelledEntry(Lbl("SPEAKER_00")), LabelledEntry(Lbl("SPEAKER_00")) >>
    /\ Len(segResult) = 2
    /\ segResult[1].speaker = "Alice"
    /\ segResult[2].speaker = "Bob"

\* C27: when the generated text is not blank, transcribe returns at least
\* one segment; when no segment came out of parsing and normalization, it is
\* one segment of the default speaker from 0 to the audio duration holding
\* the generated text.
C27_TextGivesSegment ==
    (segPc \in { "diarized", "kept" } /\ Len(generatedText) > 0)
      => /\ Len(segResult) >= 1
         /\ Len(InferenceResult(generatedText, rawSegments).segments) = 0
              => segResult = << [speaker |-> "Speaker_0", start_time |-> RZero,
                                 end_time |-> Val(segDuration), text |-> generatedText] >>

\* Text was generated, its two entries had blank text, and one segment over
\* the ten seconds of audio came back.
C27_Witness ==
    /\ segPc = "kept"
    /\ generatedText = << "hello" >>
    /\ Len(rawSegments) = 2
    /\ segDuration = Some(RInt(10))
    /\ Len(segResult) = 1
    /\ segResult[1].text = << "hello" >>
    /\ segResult[1].end_time = RInt(10)


(***************************************************************************)
(* Properties of the normalizer on malformed entries.                      *)
(***************************************************************************)
WellFormed(out) ==
    \A i \in 1..Len(out) : Len(out[i].text) > 0 /\ out[i].speaker # ""

\* C28: normalize_transcription_segments raises for no list of entries, and
\* every segment it returns has a text and a speaker that are not blank.
C28_MalformedEntriesTolerated ==
    /\ segPc # "raised"
    /\ segPc = "normalized" => WellFormed(segResult)

\* The same without the raising: whenever the normalizer returns, its
\* segments are those of the entries with a text that is not blank, each with
\* a text and a speaker.
NormalizedWellFormed ==
    segPc = "normalized"
      => /\ WellFormed(segResult)
         /\ Len(segResult)
              = Cardinality({ i \in 1..Len(rawSegments) : Len(EntryText(rawSegments[i], 1)) > 0 })


(***************************************************************************)
(* Properties of the dtype functions.                                      *)
(***************************************************************************)
\* What the claim says the mapping returned for input holds.
Sanitized(input, output) ==
    /\ "dtype" \notin DOMAIN output
    /\ "torch_dtype" \in DOMAIN input
         => "torch_dtype" \in DOMAIN output /\ output["torch_dtype"] = input["torch_dtype"]
    /\ ("torch_dtype" \notin DOMAIN input /\ "dtype" \in DOMAIN input)
         => "torch_dtype" \in DOMAIN output /\ output["torch_dtype"] = input["dtype"]
    /\ ("torch_dtype" \notin DOMAIN input /\ "dtype" \notin DOMAIN input)
         => "torch_dtype" \notin DOMAIN output
    /\ DOMAIN output \ { "torch_dtype" } = DOMAIN input \ { "dtype", "torch_dtype" }
    /\ \A k \in DOMAIN input \ { "dtype", "torch_dtype" } : output[k] = input[k]

\* C29: the mapping _sanitize_native_model_kwargs returns has no dtype key,
\* its torch_dtype is the input's torch_dtype when there is one and else the
\* input's dtype, every other key is carried over, the input mapping is left
\* as it was, and sanitizing the result again changes nothing.
C29_SanitizeKwargs ==
    [][/\ (segPc = "dtype" /\ segPc' = "sanitized")
            => /\ Sanitized(model_kwargs, native_kwargs')
               /\ model_kwargs' = model_kwargs
       /\ (segPc = "sanitized" /\ segPc' = "resanitized")
            => native_kwargs' = native_kwargs]_vars

\* A mapping with both dtype and torch_dtype, of different values, and
\* another key has been sanitized twice.
C29_Witness ==
    /\ segPc = "resanitized"
    /\ { "dtype", "torch_dtype", "device_map" } \subseteq DOMAIN model_kwargs
    /\ model_kwargs["dtype"] # model_kwargs["torch_dtype"]
    /\ native_kwargs["torch_dtype"] = model_kwargs["torch_dtype"]

\* A string of the model: its segments between dots, at least one.
IsString(text) ==
    /\ Len(text) >= 1
    /\ \A i \in 1..Len(text) :
         text[i] \in { "", "torch", "Torch", "xtorch", "a", "b", "float16", "float32",
                       "float64", "bfloat16", "None", "5" }

\* text without a leading "torch."
WithoutTorchPrefix(text) ==
    IF Len(text) >= 2 /\ Head(text) = "torch" THEN SubSeq(text, 2, Len(text)) ELSE text

HasName(value) ==
    /\ ~IsNone(value.name)
    /\ Val(value.name).isstr
    /\ Val(value.name).text # << "" >>

\* C30: _torch_dtype_to_serializable returns a string for every value: the
\* value itself when it is a string, else its name attribute when that is a
\* string that is not empty, else its text without a leading "torch.".
C30_SerializableDtype ==
    segPc = "serialized"
      => /\ IsString(Val(serializable))
         /\ dtypeValue.isstr => Val(serializable) = dtypeValue.text
         /\ (~dtypeValue.isstr /\ HasName(dtypeValue))
              => Val(serializable) = Val(dtypeValue.name).text
         /\ (~dtypeValue.isstr /\ ~HasName(dtypeValue))
              => Val(serializable) = WithoutTorchPrefix(dtypeValue.text)

\* A value with a name and a text of its own gave its name, not its text.
C30_Witness ==
    /\ segPc = "serialized"
    /\ ~dtypeValue.isstr
    /\ HasName(dtypeValue)
    /\ dtypeValue.text = << "torch", "float32" >>
    /\ Val(serializable) = << "bfloat16" >>


(***************************************************************************)
(* Properties of the time parser on strings with colons.                   *)
(***************************************************************************)
\* The string has a colon: it splits into two parts or more.
HasColon(value) == value.kind = "str" /\ Len(value.parts) >= 2

AllParse(parts) == \A i \in 1..Len(parts) : ~IsNone(parts[i].f)

\* The first number in the text, None when it holds none.
FirstNumber(parts) ==
    IF \A i \in 1..Len(parts) : IsNone(parts[i].r) THEN None
    ELSE LET first == CHOOSE i \in 1..Len(parts) :
                        /\ ~IsNone(parts[i].r)
                        /\ \A j \in 1..(i - 1) : IsNone(parts[j].r)
         IN  parts[first].r

\* C31: on a string with a colon, _safe_parse_time gives minutes * 60 +
\* seconds for two parts and hours * 3600 + minutes * 60 + seconds for three
\* when every part is a float; with a part that is none, or with another
\* count of parts, it gives the first number in the text, or None.
C31_ColonTimes ==
    (segPc = "parsed" /\ HasColon(timeValue))
      => /\ (Len(timeValue.parts) = 2 /\ AllParse(timeValue.parts))
              => timeParsed = Some(RAdd(RMul(Val(timeValue.parts[1].f), RInt(60)),
                                        Val(timeValue.parts[2].f)))
         /\ (Len(timeValue.parts) = 3 /\ AllParse(timeValue.parts))
              => timeParsed = Some(RAdd(RAdd(RMul(Val(timeValue.parts[1].f), RInt(3600)),
                                             RMul(Val(timeValue.parts[2].f), RInt(60))),
                                        Val(timeValue.parts[3].f)))
         /\ (Len(timeValue.parts) \notin { 2, 3 } \/ ~AllParse(timeValue.parts))
              => timeParsed = FirstNumber(timeValue.parts)

\* "abc:2s:0" was parsed: three parts, two of them no floats, and the
\* result is the 2 found in the second part.
C31_Witness ==
    /\ segPc = "parsed"
    /\ timeValue = Str(<< PJunk, PDirty(2), PNum(0) >>)
    /\ timeParsed = Some(RInt(2))


(***************************************************************************)
(* Properties of the normalizer's fallbacks.                               *)
(***************************************************************************)
\* The index in the list of the k-th entry whose text is not blank.
KeptIndex(segs, k) ==
    CHOOSE i \in 1..Len(segs) :
      /\ Len(EntryText(segs[i], 1)) > 0
      /\ Cardinality({ j \in 1..i : Len(EntryText(segs[j], 1)) > 0 }) = k

\* What the claim says of the k-th segment the loop appended for the entry
\* at index i of the list (the first index is 1 here, 0 in the code).
FallbacksApplied(loop, k, entry, i) ==
    /\ IsNone(FirstPresent(entry, StartKeys, 1))
         => loop[k].start_time
              = IF k = 1 THEN RMul(RInt(i - 1), RInt(2)) ELSE loop[k - 1].end_time
    /\ IsNone(FirstPresent(entry, EndKeys, 1))
         => loop[k].end_time
              = RAdd(loop[k].start_time,
                     RMax(Rat(6, 10), RMul(RInt(Len(loop[k].text)), Rat(35, 100))))
    /\ (~IsNone(EntryTime(entry, EndKeys))
          /\ RLe(Val(EntryTime(entry, EndKeys)), loop[k].start_time))
         => loop[k].end_time = RAdd(loop[k].start_time, Rat(1, 2))

\* C32: in the loop of normalize_transcription_segments an entry without a
\* start gets the end of the segment appended before it, or index * 2.0 when
\* it is the first one appended; an entry without an end gets start +
\* max(0.6, words * 0.35); an entry whose end is not above its start gets
\* start + 0.5.  With one segment and no fallback duration these are the
\* bounds returned.
C32_FallbackBounds ==
    segPc = "normalized"
      => /\ \A k \in 1..Len(NormalizeEntries(rawSegments, 1, << >>)) :
              FallbacksApplied(NormalizeEntries(rawSegments, 1, << >>), k,
                               rawSegments[KeptIndex(rawSegments, k)],
                               KeptIndex(rawSegments, k))
         /\ (Len(segResult) = 1 /\ IsNone(segDuration))
              => FallbacksApplied(segResult, 1, rawSegments[KeptIndex(rawSegments, 1)],
                                  KeptIndex(rawSegments, 1))
         /\ (Len(segResult) = 2 /\ IsNone(segDuration)
               /\ IsNone(FirstPresent(rawSegments[KeptIndex(rawSegments, 2)], StartKeys, 1)))
              => segResult[2].start_time = segResult[1].end_time

\* An entry of blank text, then an entry of four words without times, then
\* "hi" without times: the second starts at 1 * 2.0 and ends 1.4 later, the
\* third starts there and ends 0.6 later.
C32_Witness ==
    /\ segPc = "normalized"
    /\ IsNone(segDuration)
    /\ rawSegments = << "text" :> WsTxt,
                        ("Content" :> Txt(<< "a", "b", "c", "d" >>)) @@ ("Speaker" :> Lbl("Alice")),
                        "text" :> Txt(<< "hi" >>) >>
    /\ Len(segResult) = 2
    /\ segResult[1].start_time = RInt(2)
    /\ segResult[1].end_time = Rat(34, 10)
    /\ segResult[2].start_time = Rat(34, 10)
    /\ segResult[2].end_time = RInt(4)


(***************************************************************************)
(* Properties of _pick_best_speaker.                                       *)
(***************************************************************************)
OverlapWith(seg, span) == _overlap(seg.start_time, seg.end_time, span.start, span.end)

MidpointDistance(seg, span) ==
    RAbs(RSub(RDiv(RAdd(seg.start_time, seg.end_time), RInt(2)),
              RDiv(RAdd(span.start, span.end), RInt(2))))

\* The spans whose overlap with seg is maximal.
MaximalOverlap(seg, spans) ==
    { k \in 1..Len(spans) :
        \A j \in 1..Len(spans) : RLe(OverlapWith(seg, spans[j]), OverlapWith(seg, spans[k])) }

\* Among those, the spans whose midpoint is closest to the midpoint of seg.
BestSpans(seg, spans) ==
    { k \in MaximalOverlap(seg, spans) :
        \A j \in MaximalOverlap(seg, spans) :
            RLe(MidpointDistance(seg, spans[k]), MidpointDistance(seg, spans[j])) }

PicksBest(picked, spans) ==
    \A i \in 1..Len(picked) :
        \E k \in BestSpans(picked[i], spans) : picked[i].speaker = spans[k].speaker

\* C33: whatever the order of the spans, the speaker _pick_best_speaker
\* gives a segment is the speaker of a span of maximal overlap with it and,
\* among the spans of maximal overlap, of one with the closest midpoint.
C33_PicksMaximalOverlap ==
    segPc = "picked" => PicksBest(segResult, ParseSpans(speakerSegments, 1, << >>))

\* The same for the transcripts whose spans overlap the segment by clearly
\* different widths.
PicksBestOutsideTolerance ==
    (segPc = "picked" /\ rawSegments # << LongEntry >>)
      => PicksBest(segResult, ParseSpans(speakerSegments, 1, << >>))


(***************************************************************************)
(* Properties of _normalize_speaker_segments.                              *)
(***************************************************************************)
\* next.start - previous.end of the spans at k and k + 1.
Gap(spans, k) == RSub(spans[k + 1].start, spans[k].end)

PositiveAndOrdered(spans) ==
    /\ \A k \in 1..Len(spans) : RLt(spans[k].start, spans[k].end)
    /\ \A k \in 1..(Len(spans) - 1) : RLe(spans[k].start, spans[k + 1].start)

\* C34: the spans _normalize_speaker_segments returns have end > start, are
\* ordered by start, and no two consecutive spans of one speaker are left
\* with a gap below 0.05 s between them.
C34_SpansMerged ==
    segPc = "spans"
      => /\ PositiveAndOrdered(segResult)
         /\ \A k \in 1..(Len(segResult) - 1) :
              segResult[k].speaker = segResult[k + 1].speaker
                => ~RLt(Gap(segResult, k), Rat(5, 100))

\* The same with the distance the code tests: consecutive spans of one
\* speaker are at least 0.05 s apart, before or behind the end.
SpansMergedWithinDistance ==
    segPc = "spans"
      => /\ PositiveAndOrdered(segResult)
         /\ \A k \in 1..(Len(segResult) - 1) :
              segResult[k].speaker = segResult[k + 1].speaker
                => ~RLt(RAbs(Gap(segResult, k)), Rat(5, 100))

\* C39: every span given with parsed bounds and end > start lies within a
\* span of the same speaker that _normalize_speaker_segments returns.
C39_MergeKeepsCoverage ==
    segPc = "spans"
      => \A i \in 1..Len(ParseSpans(speakerSegments, 1, << >>)) :
           \E k \in 1..Len(segResult) :
             /\ segResult[k].speaker = ParseSpans(speakerSegments, 1, << >>)[i].speaker
             /\ RLe(segResult[k].start, ParseSpans(speakerSegments, 1, << >>)[i].start)
             /\ RLe(ParseSpans(speakerSegments, 1, << >>)[i].end, segResult[k].end)

\* The same for the lists in which no span of a speaker ends before an
\* earlier span of that speaker does.
MergeKeepsCoverageWhenEndsGrow ==
    (segPc = "spans"
       /\ \A i, j \in 1..Len(ParseSpans(speakerSegments, 1, << >>)) :
            (/\ ParseSpans(speakerSegments, 1, << >>)[i].speaker
                  = ParseSpans(speakerSegments, 1, << >>)[j].speaker
             /\ RLe(ParseSpans(speakerSegments, 1, << >>)[i].start,
                    ParseSpans(speakerSegments, 1, << >>)[j].start))
              => RLe(ParseSpans(speakerSegments, 1, << >>)[i].end,
                     ParseSpans(speakerSegments, 1, << >>)[j].end))
      => \A i \in 1..Len(ParseSpans(speakerSegments, 1, << >>)) :
           \E k \in 1..Len(segResult) :
             /\ segResult[k].speaker = ParseSpans(speakerSegments, 1, << >>)[i].speaker
             /\ RLe(segResult[k].start, ParseSpans(speakerSegments, 1, << >>)[i].start)
             /\ RLe(ParseSpans(speakerSegments, 1, << >>)[i].end, segResult[k].end)


(***************************************************************************)
(* Properties of run_speaker_diarization.                                  *)
(***************************************************************************)
Disabled(env) == env.enable \in { "0", "" }

TokenMissing(env) ==
    /\ env.hf_token \in { None, Some("") }
    /\ env.hub_token \in { None, Some("") }

NoValidTurn(env) ==
    \A i \in 1..Len(env.turns) : ~RLt(env.turns[i]["start"].v, env.turns[i]["end"].v)

\* The one span of the default speaker over the audio.
DefaultSpan(env) ==
    << [speaker |-> "Speaker_0", start |-> RZero,
        end |-> IF env.sample_rate > 0
                       /\ env.samples * 10 > env.sample_rate
                  THEN Rat(env.samples, env.sample_rate)
                ELSE Rat(1, 10)] >>

\* C37: run_speaker_diarization raises nothing and returns at least one
\* span, each with end > start; when diarization is disabled, no token is
\* set, pyannote is missing or fails, or no turn of positive duration comes
\* out of it, the result is the one default-speaker span from 0 to
\* max(duration, 0.1).
C37_DiarizationTotal ==
    segPc = "diarization_returned"
      => /\ IsNone(segRaised)
         /\ Len(segResult) >= 1
         /\ \A k \in 1..Len(segResult) : RLt(segResult[k].start, segResult[k].end)
         /\ (Disabled(diarEnv) \/ TokenMissing(diarEnv) \/ diarEnv.library # "ok"
               \/ NoValidTurn(diarEnv))
              => segResult = DefaultSpan(diarEnv)

\* pyannote ran on 2 s of audio and yielded two turns, neither of positive
\* duration: the result is the default span [0, 2].
C37_Witness ==
    /\ segPc = "diarization_returned"
    /\ diarEnv.library = "ok"
    /\ ~Disabled(diarEnv)
    /\ ~TokenMissing(diarEnv)
    /\ Len(diarEnv.turns) = 2
    /\ segResult = << [speaker |-> "Speaker_0", start |-> RZero, end |-> RInt(2)] >>


(***************************************************************************)
(* Properties of repeated normalization.                                   *)
(***************************************************************************)
\* C38: normalizing the list normalize_transcription_segments returned once
\* more, with the same fallback duration or with none, returns that list:
\* the same segments with the same speakers, bounds and texts.
C38_NormalizeIdempotent ==
    [][(segPc = "normalized" /\ segPc' = "renormalized") => segResult' = segResult]_vars

\* The same for the lists without a bound of exactly 0 behind the first
\* segment.
NormalizeIdempotentWithoutZero ==
    [][(/\ segPc = "normalized"
        /\ segPc' = "renormalized"
        /\ \A i \in 2..Len(segResult) : segResult[i].start_time # RZero
        /\ \A i \in 1..Len(segResult) : segResult[i].end_time # RZero)
         => segResult' = segResult]_vars


(***************************************************************************)
(* Properties of the lazy load of transcribe and of reload_model.          *)
(***************************************************************************)
AudioCalls ==
    { "load_audio_from_bytes", "preprocess_audio", "run_inference", "run_speaker_diarization" }

LoaderCalls ==
    { "load_model", "_vibevoice_runtime_status", "_load_vibevoice_native",
      "_load_transformers_fallback" }

Made(names, history) == \E i \in 1..Len(history) : history[i] \in names

\* C35: transcribe on a handle that is not loaded calls load_model before
\* any decoding; when that load raises, transcribe raises the same exception
\* and neither decoding, preprocessing, generation nor diarization was
\* called; on a loaded handle transcribe calls no loader function, and
\* load_model called on a loaded handle returns with the handle unchanged.
C35_LazyLoadFirst ==
    [][/\ (hpc = "idle" /\ calls' = << "transcribe" >>)
            => IF Self._loaded
                 THEN hpc' = "transcribe_run" /\ lpc' = "idle" /\ loader' = loader
               ELSE hpc' = "transcribe_load" /\ lpc' = "call"
       /\ hpc' = "transcribe_load" => ~Made(AudioCalls, calls')
       /\ (hpc = "transcribe_load" /\ hpc' = "transcribe_run")
            => Self._loaded /\ calls'[2] = "load_model" /\ ~Made(AudioCalls, calls')
       /\ (hpc = "transcribe_load" /\ lpc = "raised")
            => /\ hpc' = "idle"
               /\ ~IsNone(raised)
               /\ outcome' = Ended("transcribe", raised)
               /\ IsNone(result')
               /\ ~Made(AudioCalls, calls')
       /\ (hpc = "transcribe_run" /\ Len(calls) = 1)
            => ~Made(LoaderCalls, calls') /\ loader' = loader
       /\ (lpc = "call" /\ Self._loaded /\ lpc' # "call")
            => lpc' = "returned" /\ loader' = loader]_vars

\* transcribe on a handle that was not loaded ended with the exception of
\* the family runtime check of its lazy load, and no audio function was
\* called.
C35_Witness ==
    /\ hpc = "idle"
    /\ ~IsNone(outcome)
    /\ Val(outcome).op = "transcribe"
    /\ ~IsNone(Val(outcome).raised)
    /\ Len(calls) = 3
    /\ calls[2] = "load_model"
    /\ calls[3] = "_vibevoice_runtime_status"
    /\ ~Self._loaded
    /\ IsNone(result)

\* transcribe on a loaded handle ran to its end: the audio functions were
\* called and no loader function.
TranscribeOnLoadedRan ==
    /\ hpc = "idle"
    /\ ~IsNone(result)
    /\ Made(AudioCalls, calls)
    /\ ~Made(LoaderCalls, calls)


\* The line reload_model(p) logs first.
ReloadLine(p) == Log("INFO", << "Reloading model with precision: ", p >>)

\* The line load_model logs about the precision it was asked for.
RequestedLine(self) ==
    Log("INFO", << "Requested precision=", self.config.precision,
                   " device=", self.config.device >>)

\* C36: reload_model(p) unloads, sets the configured precision to p and
\* loads; while it loads and after it ended the configured precision is p;
\* when the load raises, the caller gets the exception and the handle is
\* left not loaded, without model and processor, configured for p; nothing
\* but reload_model changes the configured precision, and every load of a
\* handle that is not loaded asks for the configured precision.
C36_FailedReloadKeepsPrecision ==
    [][/\ (hpc = "idle" /\ hpc' = "reload_model")
            => /\ Cleared(Val(loader'))
               /\ lpc' = "call"
               /\ calls' = << "reload_model", "unload_model" >>
               /\ stderr'[1] = ReloadLine(Val(loader').config.precision)
       /\ hpc = "reload_model"
            => /\ stderr'[1] = ReloadLine(Self.config.precision)
               /\ Val(loader').config.precision = Self.config.precision
       /\ (hpc = "reload_model" /\ lpc = "raised")
            => /\ hpc' = "idle"
               /\ ~IsNone(raised)
               /\ outcome' = Ended("reload_model", raised)
               /\ Cleared(Val(loader'))
       /\ Val(loader').config.precision # Self.config.precision
            => hpc = "idle" /\ hpc' = "reload_model"
       /\ (lpc = "call" /\ ~Self._loaded /\ lpc' # "call")
            => /\ stderr'[Len(stderr')] = RequestedLine(Self)
               /\ Val(loader').config = Self.config]_vars

\* A reload to int8 raised to its caller, and the lazy load of the next
\* transcribe asked for int8 on the handle left without model.
C36_Witness ==
    /\ hpc = "transcribe_load"
    /\ lpc \in { "runtime_check", "native" }
    /\ ~IsNone(outcome)
    /\ Val(outcome).op = "reload_model"
    /\ ~IsNone(Val(outcome).raised)
    /\ Self.config.precision = "int8"
    /\ stderr[Len(stderr)] = RequestedLine(Self)
    /\ IsNone(Self.model)
    /\ IsNone(Self.processor)


(***************************************************************************)
(* Properties of the local source discovery.                               *)
(***************************************************************************)
\* The discovery is enabled and a candidate directory holds the package.
LocalSourceFound(env) ==
    _is_local_source_discovery_enabled(env) /\ Len(LocalSources(env)) > 0

\* The local source found is an entry of sys.path.
LocalOnPath(env) ==
    \E i \in 1..Len(env.sys_path) : env.sys_path[i] = LocalSources(env)[1]

\* The message holds the line.
Says(message, line) == \E i \in 1..Len(message) : message[i] = line

LocalSourceAfterCheck ==
    (Family /\ LocalSourceFound(localEnv) /\ LocalOnPath(localEnv))
      => localEnv.installed = "present"

\* Outside the family no check runs, and the local source found is on
\* sys.path once the native import was tried.
LocalSourceInjected ==
    (LocalSourceFound(localEnv) /\ lpc \in { "native_processor", "fallback" })
      => LocalOnPath(localEnv) /\ localEnv.sys_path[1] = LocalSources(localEnv)[1]

\* With an explicit source directory holding the package and nothing
\* installed, the load of a family model was rejected by the runtime check
\* and the source directory is not on sys.path.
LocalSourceRejected ==
    /\ Family
    /\ localEnv.VIBEVOICE_SOURCE_DIR = "/opt/VibeVoice"
    /\ localEnv.packaged = { "/opt/VibeVoice" }
    /\ localEnv.installed = "absent"
    /\ lpc = "raised"
    /\ calls[Len(calls)] = "_vibevoice_runtime_status"
    /\ localEnv.sys_path = << "site-packages" >>

====
